---- MODULE Spec2Model ----
(***************************************************************************)
(* Lock-balance analyzer (pkg/analyzer/mutex) and join-counter analyzer    *)
(* (pkg/analyzer/waitgroup) of goconcurrencylint.                          *)
(*                                                                         *)
(* The lock-balance analyzer is a recursive descent over the statements of *)
(* one function body.  The model walks the body one statement at a time:   *)
(* the recursion                                                           *)
(* stack of analyzeBlock/analyzeStatements calls is the sequence `frames`, *)
(* each frame holding the block-local copy of the Stats map, and the       *)
(* statements walked so far are recorded in `body`.  The source position   *)
(* of a statement is its index in `body`.                                  *)
(***************************************************************************)
EXTENDS Integers, Sequences, FiniteSets, TLC

\* Bounds on the analysed function body.
MaxStmts == 3
MaxDepth == 2
MaxScopes == 1
MaxDefers == 1
MaxOther == 1
\* Bound on a body made of lock calls only.
MaxStraight == 7
\* Bound on a body made of lock calls and compound statements only.
MaxScopeStmts == 4

\* Identifiers that primitive discovery may have classified.
VarNames == {"mu"}

VARIABLES
    mutexNames,       \* Analyzer.mutexNames
    rwMutexNames,     \* Analyzer.rwMutexNames
    stats,            \* Analyzer.stats
    frames,           \* active analyzeBlock / analyzeStatements calls, innermost last
    errors,           \* ErrorCollector.errors
    badDeferUnlock,   \* deferErrorCollector.badDeferUnlock
    badDeferRUnlock,  \* deferErrorCollector.badDeferRUnlock
    body,             \* statements of the function body walked so far
    pc,               \* "new" | "run" | "done" ; "wg" | "wgdone" for the join-counter analyzer
    waitGroupNames,   \* waitgroup.Analyzer.waitGroupNames
    function,         \* waitgroup.Analyzer.function: the blocks of fn.Body still open, innermost last
    wgStats,          \* the map[string]*Stats that collectStats returns
    reported,         \* the pass.Reportf calls made by ReportAll, in order
    firstRun,         \* what an earlier run over the same input collected and emitted
    added,            \* the AddError calls of this run, in call order
    comments,         \* CommentFilter.comments, in source order
    filtered          \* the last position handed to the comment filter, and its answer

vars == <<mutexNames, rwMutexNames, stats, frames, errors,
          badDeferUnlock, badDeferRUnlock, body, pc,
          waitGroupNames, function, wgStats, reported, firstRun, added,
          comments, filtered>>

\* State of the join-counter analyzer, which the lock-balance analyzer never touches.
wgVars == <<waitGroupNames, function, wgStats>>

\* State of the pass around the analyzers, which no analyzer touches.
passVars == <<reported, firstRun, added, comments, filtered>>

\* The comment filter has not been asked.
NoCall == [pos |-> 0, inComment |-> FALSE]

\* No earlier run.
NoRun == [added |-> <<>>, reported |-> <<>>, body |-> <<>>, errors |-> <<>>, runs |-> 0]

----------------------------------------------------------------------------
\* Stats{} : the zero value of the per-mutex block state.
ZeroStats == [lock |-> 0, rlock |-> 0, lockPos |-> <<>>, rlockPos |-> <<>>]

\* report.ErrorReport
ErrorReport(p, message) == [Pos |-> p, Message |-> message]

\* ErrorCollector.AddError
AddError(errs, p, message) == Append(errs, ErrorReport(p, message))

\* An initializeStats that starts from what the previous AnalyzeFunction call
\* of this analyzer ended with.
keepLastStats(mu, rw) ==
    IF frames = <<>> THEN [n \in mu \cup rw |-> ZeroStats] ELSE frames[1].st

\* initializeStats: one zero Stats per known mutex and rwmutex name.
initializeStats(mu, rw) == [n \in mu \cup rw |-> ZeroStats]

\* copyStats: deep copy of a stats map.
copyStats(original) ==
    [n \in DOMAIN original |->
        [lock     |-> original[n].lock,
         rlock    |-> original[n].rlock,
         lockPos  |-> <<>> \o original[n].lockPos,
         rlockPos |-> <<>> \o original[n].rlockPos]]

\* mergeStats that adds the counts but loses the child's positions.
mergeStatsCountsOnly(parent, child) ==
    [n \in DOMAIN parent |->
        IF n \in DOMAIN child
        THEN [parent[n] EXCEPT !.lock = @ + child[n].lock,
                               !.rlock = @ + child[n].rlock]
        ELSE parent[n]]

\* mergeStats: add the child's counts and positions to the parent's.
mergeStats(parent, child) ==
    [n \in DOMAIN parent |->
        IF n \in DOMAIN child
        THEN [lock     |-> parent[n].lock + child[n].lock,
              rlock    |-> parent[n].rlock + child[n].rlock,
              lockPos  |-> parent[n].lockPos \o child[n].lockPos,
              rlockPos |-> parent[n].rlockPos \o child[n].rlockPos]
        ELSE parent[n]]

\* removeFirstLockPos with the last position dropped instead of the first.
removeLastLockPos(s) ==
    IF Len(s.lockPos) > 0
    THEN [s EXCEPT !.lockPos = SubSeq(@, 1, Len(@) - 1)]
    ELSE s

\* removeFirstLockPos that forgets to drop a position.
removeFirstLockPosKeep(s) == s

\* removeFirstLockPos
removeFirstLockPos(s) ==
    IF Len(s.lockPos) > 0 THEN [s EXCEPT !.lockPos = Tail(@)] ELSE s

\* removeFirstRLockPos
removeFirstRLockPos(s) ==
    IF Len(s.rlockPos) > 0 THEN [s EXCEPT !.rlockPos = Tail(@)] ELSE s

----------------------------------------------------------------------------
(* The analysis context threaded through the handlers of one statement:    *)
(*   st      the stats map of the block being analysed                     *)
(*   errors  the collector                                                 *)
(*   badU    deferErrors.badDeferUnlock                                    *)
(*   badR    deferErrors.badDeferRUnlock                                   *)

Ctx(st, errs, badU, badR) == [st |-> st, errors |-> errs, badU |-> badU, badR |-> badR]

\* handleMutexCall whose Unlock at count 0 reports and still decrements.
handleMutexCallDecAtZero(varName, methodName, p, c) ==
    CASE methodName = "Lock" ->
            [c EXCEPT !.st[varName] =
                [@ EXCEPT !.lock = @ + 1, !.lockPos = Append(@, p)]]
      [] methodName = "Unlock" ->
            IF c.st[varName].lock = 0
            THEN [c EXCEPT !.errors =
                    AddError(@, p, "mutex '" \o varName \o "' is unlocked but not locked"),
                           !.st[varName].lock = @ - 1]
            ELSE [c EXCEPT !.st[varName] =
                    removeFirstLockPos([@ EXCEPT !.lock = @ - 1])]
      [] OTHER -> c

\* handleMutexCall
handleMutexCall(varName, methodName, p, c) ==
    CASE methodName = "Lock" ->
            [c EXCEPT !.st[varName] =
                [@ EXCEPT !.lock = @ + 1, !.lockPos = Append(@, p)]]
      [] methodName = "Unlock" ->
            IF c.st[varName].lock = 0
            THEN [c EXCEPT !.errors =
                    AddError(@, p, "mutex '" \o varName \o "' is unlocked but not locked")]
            ELSE [c EXCEPT !.st[varName] =
                    removeFirstLockPos([@ EXCEPT !.lock = @ - 1])]
      [] OTHER -> c

\* handleRWMutexCall whose RUnlock decrements without dropping a position.
handleRWMutexCallNoPop(varName, methodName, p, c) ==
    CASE methodName = "Lock" ->
            [c EXCEPT !.st[varName] =
                [@ EXCEPT !.lock = @ + 1, !.lockPos = Append(@, p)]]
      [] methodName = "Unlock" ->
            IF c.st[varName].lock = 0
            THEN [c EXCEPT !.errors =
                    AddError(@, p, "rwmutex '" \o varName \o "' is unlocked but not locked")]
            ELSE [c EXCEPT !.st[varName] =
                    removeFirstLockPos([@ EXCEPT !.lock = @ - 1])]
      [] methodName = "RLock" ->
            [c EXCEPT !.st[varName] =
                [@ EXCEPT !.rlock = @ + 1, !.rlockPos = Append(@, p)]]
      [] methodName = "RUnlock" ->
            IF c.st[varName].rlock = 0
            THEN [c EXCEPT !.errors =
                    AddError(@, p, "rwmutex '" \o varName \o "' is runlocked but not rlocked")]
            ELSE [c EXCEPT !.st[varName].rlock = @ - 1]
      [] OTHER -> c

\* handleRWMutexCall
handleRWMutexCall(varName, methodName, p, c) ==
    CASE methodName = "Lock" ->
            [c EXCEPT !.st[varName] =
                [@ EXCEPT !.lock = @ + 1, !.lockPos = Append(@, p)]]
      [] methodName = "Unlock" ->
            IF c.st[varName].lock = 0
            THEN [c EXCEPT !.errors =
                    AddError(@, p, "rwmutex '" \o varName \o "' is unlocked but not locked")]
            ELSE [c EXCEPT !.st[varName] =
                    removeFirstLockPos([@ EXCEPT !.lock = @ - 1])]
      [] methodName = "RLock" ->
            [c EXCEPT !.st[varName] =
                [@ EXCEPT !.rlock = @ + 1, !.rlockPos = Append(@, p)]]
      [] methodName = "RUnlock" ->
            IF c.st[varName].rlock = 0
            THEN [c EXCEPT !.errors =
                    AddError(@, p, "rwmutex '" \o varName \o "' is runlocked but not rlocked")]
            ELSE [c EXCEPT !.st[varName] =
                    removeFirstRLockPos([@ EXCEPT !.rlock = @ - 1])]
      [] OTHER -> c

\* analyzeExpressionStatement, for a call  varName.methodName()  at position p.
analyzeExpressionStatement(varName, methodName, p, c, mu, rw) ==
    LET c1 == IF varName \in mu THEN handleMutexCall(varName, methodName, p, c) ELSE c
    IN  IF varName \in rw THEN handleRWMutexCall(varName, methodName, p, c1) ELSE c1

----------------------------------------------------------------------------
\* handleDeferUnlock that decrements without dropping a position.
handleDeferUnlockNoPop(varName, p, c, isRWMutex) ==
    IF c.st[varName].lock = 0
    THEN LET mutexType == IF isRWMutex THEN "rwmutex" ELSE "mutex"
         IN  [c EXCEPT
                !.errors = AddError(@, p, mutexType \o " '" \o varName
                                \o "' has defer unlock but no corresponding lock"),
                !.badU = @ \cup {varName}]
    ELSE [c EXCEPT !.st[varName].lock = @ - 1]

\* handleDeferUnlock
handleDeferUnlock(varName, p, c, isRWMutex) ==
    IF c.st[varName].lock = 0
    THEN LET mutexType == IF isRWMutex THEN "rwmutex" ELSE "mutex"
         IN  [c EXCEPT
                !.errors = AddError(@, p, mutexType \o " '" \o varName
                                \o "' has defer unlock but no corresponding lock"),
                !.badU = @ \cup {varName}]
    ELSE [c EXCEPT !.st[varName] = removeFirstLockPos([@ EXCEPT !.lock = @ - 1])]

\* handleDeferRUnlock that decrements without dropping a position.
handleDeferRUnlockNoPop(varName, p, c) ==
    IF c.st[varName].rlock = 0
    THEN [c EXCEPT
            !.errors = AddError(@, p, "rwmutex '" \o varName
                            \o "' has defer runlock but no corresponding rlock"),
            !.badR = @ \cup {varName}]
    ELSE [c EXCEPT !.st[varName].rlock = @ - 1]

\* handleDeferRUnlock
handleDeferRUnlock(varName, p, c) ==
    IF c.st[varName].rlock = 0
    THEN [c EXCEPT
            !.errors = AddError(@, p, "rwmutex '" \o varName
                            \o "' has defer runlock but no corresponding rlock"),
            !.badR = @ \cup {varName}]
    ELSE [c EXCEPT !.st[varName] = removeFirstRLockPos([@ EXCEPT !.rlock = @ - 1])]

\* handleDeferCall, for  defer varName.selName()  at position p.
handleDeferCall(varName, selName, p, c, mu, rw) ==
    LET c1 == IF varName \in mu /\ selName = "Unlock"
              THEN handleDeferUnlock(varName, p, c, FALSE) ELSE c
    IN  IF varName \in rw
        THEN CASE selName = "Unlock"  -> handleDeferUnlock(varName, p, c1, TRUE)
               [] selName = "RUnlock" -> handleDeferRUnlock(varName, p, c1)
               [] OTHER -> c1
        ELSE c1

(* A deferred function literal is given by the calls found anywhere in its *)
(* body, each a record [x, sel] for  x.sel() .                             *)
Call(x, sel) == [x |-> x, sel |-> sel]

\* containsUnlock
containsUnlock(block, mutexName) ==
    \E i \in DOMAIN block : block[i].sel = "Unlock" /\ block[i].x = mutexName

\* containsRUnlock
containsRUnlock(block, mutexName) ==
    \E i \in DOMAIN block : block[i].sel = "RUnlock" /\ block[i].x = mutexName

\* handleDeferFunctionLiteral, first loop (over mutexNames).
RECURSIVE deferLiteralMutexes(_, _, _, _)
deferLiteralMutexes(names, block, p, c) ==
    IF names = {} THEN c
    ELSE LET n == CHOOSE x \in names : TRUE
         IN  deferLiteralMutexes(names \ {n}, block, p,
                IF containsUnlock(block, n) THEN handleDeferUnlock(n, p, c, FALSE) ELSE c)

\* handleDeferFunctionLiteral, second loop (over rwMutexNames).
RECURSIVE deferLiteralRWMutexes(_, _, _, _)
deferLiteralRWMutexes(names, block, p, c) ==
    IF names = {} THEN c
    ELSE LET n  == CHOOSE x \in names : TRUE
             c1 == IF containsUnlock(block, n) THEN handleDeferUnlock(n, p, c, TRUE) ELSE c
             c2 == IF containsRUnlock(block, n) THEN handleDeferRUnlock(n, p, c1) ELSE c1
         IN  deferLiteralRWMutexes(names \ {n}, block, p, c2)

\* handleDeferFunctionLiteral that releases once per call found in the closure.
handleDeferFunctionLiteralPerCall(block, p, c, mu, rw) ==
    LET once(cc) == deferLiteralRWMutexes(rw, block, p, deferLiteralMutexes(mu, block, p, cc))
    IN  IF Len(block) = 2 /\ block[1] = block[2] THEN once(once(c)) ELSE once(c)

\* handleDeferFunctionLiteral
handleDeferFunctionLiteral(block, p, c, mu, rw) ==
    deferLiteralRWMutexes(rw, block, p, deferLiteralMutexes(mu, block, p, c))

----------------------------------------------------------------------------
\* reportUnmatchedMutexLocksWithContext that reports one position per queue.
reportUnmatchedFirstOnly(errs, mutexName, st, isRWMutex, branchType) ==
    IF mutexName \notin DOMAIN st THEN errs
    ELSE
    LET mutexType == IF isRWMutex THEN "rwmutex" ELSE "mutex"
        suffix == IF branchType = "" THEN "" ELSE " in " \o branchType
        lockMessage  == mutexType \o " '" \o mutexName \o "' is locked but not unlocked" \o suffix
        rlockMessage == "rwmutex '" \o mutexName \o "' is rlocked but not runlocked" \o suffix
        s == st[mutexName]
        e1 == IF s.lockPos = <<>> THEN errs
              ELSE Append(errs, ErrorReport(s.lockPos[1], lockMessage))
    IN  IF isRWMutex /\ s.rlockPos # <<>>
        THEN Append(e1, ErrorReport(s.rlockPos[1], rlockMessage))
        ELSE e1

\* reportUnmatchedMutexLocksWithContext
reportUnmatchedMutexLocksWithContext(errs, mutexName, st, isRWMutex, branchType) ==
    IF mutexName \notin DOMAIN st THEN errs
    ELSE
    LET mutexType == IF isRWMutex THEN "rwmutex" ELSE "mutex"
        suffix == IF branchType = "" THEN "" ELSE " in " \o branchType
        lockMessage  == mutexType \o " '" \o mutexName \o "' is locked but not unlocked" \o suffix
        rlockMessage == "rwmutex '" \o mutexName \o "' is rlocked but not runlocked" \o suffix
        s == st[mutexName]
        e1 == errs \o [i \in 1..Len(s.lockPos) |-> ErrorReport(s.lockPos[i], lockMessage)]
    IN  IF isRWMutex
        THEN e1 \o [i \in 1..Len(s.rlockPos) |-> ErrorReport(s.rlockPos[i], rlockMessage)]
        ELSE e1

\* reportUnmatchedMutexLocks
reportUnmatchedMutexLocks(errs, mutexName, st, isRWMutex) ==
    reportUnmatchedMutexLocksWithContext(errs, mutexName, st, isRWMutex, "")

\* One loop of reportUnmatchedLocksInBranch.
RECURSIVE reportBranchNames(_, _, _, _, _)
reportBranchNames(names, errs, st, isRWMutex, branchType) ==
    IF names = {} THEN errs
    ELSE LET n == CHOOSE x \in names : TRUE
         IN  reportBranchNames(names \ {n},
                reportUnmatchedMutexLocksWithContext(errs, n, st, isRWMutex, branchType),
                st, isRWMutex, branchType)

\* reportUnmatchedLocksInBranch that loses the branch tag.
reportUnmatchedLocksInBranchNoTag(errs, st, branchType, mu, rw) ==
    reportBranchNames(rw, reportBranchNames(mu, errs, st, FALSE, ""), st, TRUE, "")

\* reportUnmatchedLocksInBranch
reportUnmatchedLocksInBranch(errs, st, branchType, mu, rw) ==
    reportBranchNames(rw, reportBranchNames(mu, errs, st, FALSE, branchType),
                      st, TRUE, branchType)

\* One loop of reportUnmatchedLocks; `skip` holds the names with a bad-defer mark.
RECURSIVE reportFunctionNames(_, _, _, _, _)
reportFunctionNames(names, errs, st, isRWMutex, skip) ==
    IF names = {} THEN errs
    ELSE LET n == CHOOSE x \in names : TRUE
         IN  reportFunctionNames(names \ {n},
                IF n \in skip THEN errs
                ELSE reportUnmatchedMutexLocks(errs, n, st, isRWMutex),
                st, isRWMutex, skip)

\* reportUnmatchedLocks that ignores the bad-defer marks.
reportUnmatchedLocksNoSkip(errs, st, mu, rw, badU, badR) ==
    reportFunctionNames(rw, reportFunctionNames(mu, errs, st, FALSE, {}), st, TRUE, {})

\* reportUnmatchedLocks
reportUnmatchedLocks(errs, st, mu, rw, badU, badR) ==
    reportFunctionNames(rw, reportFunctionNames(mu, errs, st, FALSE, badU),
                        st, TRUE, badU \cup badR)

----------------------------------------------------------------------------
(* Statements of the analysed body.  A statement is a record               *)
(*   [op, x, lit] : op the kind of statement, x the receiver identifier    *)
(*   of a Lock/Unlock/RLock/RUnlock call ("" if none), lit the calls       *)
(*   inside a deferred function literal.                                   *)
Stmt(op, x, lit) == [op |-> op, x |-> x, lit |-> lit]

ScopeOps == {"if{", "go func{", "for{", "range{", "{",
             "case{", "typecase{", "comm{"}
DeferOps == {"defer", "defer func"}

NumOps(b, ops) == Cardinality({i \in DOMAIN b : b[i].op \in ops})
NumStmts(b)    == Cardinality({i \in DOMAIN b : b[i].op \notin {"}", "}else{"}})

\* Methods the type checker accepts on an identifier of that classification.
Methods(v) == IF v \in rwMutexNames THEN {"Lock", "Unlock", "RLock", "RUnlock"}
              ELSE {"Lock", "Unlock"}
DeferSels(v) == IF v \in rwMutexNames THEN {"Unlock", "RUnlock"} ELSE {"Unlock"}
DeferLits(v) ==
    IF v \in rwMutexNames
    THEN {<<Call(v, "Unlock")>>, <<Call(v, "RUnlock")>>,
          <<Call(v, "Unlock"), Call(v, "RUnlock")>>}
    ELSE {<<Call(v, "Unlock")>>, <<Call(v, "Unlock"), Call(v, "Unlock")>>}

Top    == frames[Len(frames)]
Parent == frames[Len(frames) - 1]
Popped == SubSeq(frames, 1, Len(frames) - 1)
CurCtx == Ctx(Top.st, errors, badDeferUnlock, badDeferRUnlock)
NextPos == Len(body) + 1

Frame(kind, st) == [kind |-> kind, st |-> st]

\* Writes back the context produced by the handlers of one statement.
Commit(c) ==
    /\ frames' = [frames EXCEPT ![Len(frames)].st = c.st]
    /\ errors' = c.errors
    /\ badDeferUnlock' = c.badU
    /\ badDeferRUnlock' = c.badR

CanAddStmtUpTo(bound) == pc = "run" /\ NumStmts(body) < bound
CanAddStmt == CanAddStmtUpTo(MaxStmts)
CanOpenUpTo(bound) == /\ CanAddStmtUpTo(bound)
                      /\ Len(frames) - 1 < MaxDepth
                      /\ NumOps(body, ScopeOps) < MaxScopes

----------------------------------------------------------------------------
Init ==
    /\ mutexNames \in SUBSET VarNames
    /\ rwMutexNames \in SUBSET VarNames
    /\ mutexNames \cup rwMutexNames # {}        \* hasMutexes
    /\ mutexNames \cap rwMutexNames = {}        \* an identifier has one type
    /\ stats = [n \in {} |-> ZeroStats]
    /\ frames = <<>>
    /\ errors = <<>>
    /\ badDeferUnlock = {}
    /\ badDeferRUnlock = {}
    /\ body = <<>>
    /\ pc = "new"
    /\ waitGroupNames = {}                      \* no join counter in this body
    /\ function = <<>>
    /\ wgStats = <<>>
    /\ reported = <<>>
    /\ firstRun = NoRun
    /\ added = <<>>
    /\ comments = <<>>
    /\ filtered = NoCall

\* AnalyzeFunction up to the call of analyzeBlock(fn.Body).
AnalyzeFunctionBegin ==
    /\ pc = "new"
    /\ stats' = initializeStats(mutexNames, rwMutexNames)
    /\ frames' = <<Frame("func", copyStats(stats'))>>
    /\ pc' = "run"
    /\ UNCHANGED <<wgVars, passVars>>
    /\ UNCHANGED <<mutexNames, rwMutexNames, errors, badDeferUnlock, badDeferRUnlock, body>>

\* analyzeStatement on an *ast.ExprStmt that calls a method on a tracked name,
\* in a body of fewer than `bound` statements.
ExprStmtUpTo(bound) ==
    /\ CanAddStmtUpTo(bound)
    /\ \E v \in VarNames : \E m \in Methods(v) :
          /\ Commit(analyzeExpressionStatement(v, m, NextPos, CurCtx, mutexNames, rwMutexNames))
          /\ body' = Append(body, Stmt(m, v, <<>>))
    /\ UNCHANGED <<wgVars, passVars>>
    /\ UNCHANGED <<mutexNames, rwMutexNames, stats, pc>>

ExprStmt == ExprStmtUpTo(MaxStmts)

\* The same step in a body that consists of lock calls only.
StraightExprStmt == ExprStmtUpTo(MaxStraight)

\* analyzeDeferStatement on  defer v.sel() .
DeferCallStmt ==
    /\ CanAddStmt
    /\ NumOps(body, DeferOps) < MaxDefers
    /\ \E v \in VarNames : \E sel \in DeferSels(v) :
          /\ Commit(handleDeferCall(v, sel, NextPos, CurCtx, mutexNames, rwMutexNames))
          /\ body' = Append(body, Stmt("defer", v, <<Call(v, sel)>>))
    /\ UNCHANGED <<wgVars, passVars>>
    /\ UNCHANGED <<mutexNames, rwMutexNames, stats, pc>>

\* analyzeDeferStatement on  defer func() { ... }() .
DeferFuncLitStmt ==
    /\ CanAddStmt
    /\ NumOps(body, DeferOps) < MaxDefers
    /\ \E v \in VarNames : \E lit \in DeferLits(v) :
          /\ Commit(handleDeferFunctionLiteral(lit, NextPos, CurCtx, mutexNames, rwMutexNames))
          /\ body' = Append(body, Stmt("defer func", "", lit))
    /\ UNCHANGED <<wgVars, passVars>>
    /\ UNCHANGED <<mutexNames, rwMutexNames, stats, pc>>

\* analyzeStatement on a statement it does not handle, or one that the
\* comment filter skips: nothing changes.
OtherStmt ==
    /\ CanAddStmt
    /\ NumOps(body, {"other"}) < MaxOther
    /\ body' = Append(body, Stmt("other", "", <<>>))
    /\ UNCHANGED <<wgVars, passVars>>
    /\ UNCHANGED <<mutexNames, rwMutexNames, stats, frames, errors,
                   badDeferUnlock, badDeferRUnlock, pc>>

\* Entry of analyzeBlock / analyzeStatements for the body of a nested scope,
\* in a body of fewer than `bound` statements.
EnterUpTo(bound, kind, op) ==
    /\ CanOpenUpTo(bound)
    /\ frames' = Append(frames, Frame(kind, copyStats(stats)))
    /\ body' = Append(body, Stmt(op, "", <<>>))
    /\ UNCHANGED <<wgVars, passVars>>
    /\ UNCHANGED <<mutexNames, rwMutexNames, stats, errors,
                   badDeferUnlock, badDeferRUnlock, pc>>

Enter(kind, op) == EnterUpTo(MaxStmts, kind, op)

\* Return of a branch-like scope: what is outstanding is reported with the tag.
ExitReport(kind, branchType) ==
    /\ pc = "run"
    /\ Len(frames) > 1
    /\ Top.kind = kind
    /\ errors' = reportUnmatchedLocksInBranch(errors, Top.st, branchType,
                                              mutexNames, rwMutexNames)
    /\ frames' = Popped
    /\ body' = Append(body, Stmt("}", "", <<>>))
    /\ UNCHANGED <<wgVars, passVars>>
    /\ UNCHANGED <<mutexNames, rwMutexNames, stats, badDeferUnlock, badDeferRUnlock, pc>>

\* Return of a loop body or nested block: its stats are merged into the caller's.
ExitMerge(kind) ==
    /\ pc = "run"
    /\ Len(frames) > 1
    /\ Top.kind = kind
    /\ frames' = [Popped EXCEPT ![Len(frames) - 1].st = mergeStats(Parent.st, Top.st)]
    /\ body' = Append(body, Stmt("}", "", <<>>))
    /\ UNCHANGED <<wgVars, passVars>>
    /\ UNCHANGED <<mutexNames, rwMutexNames, stats, errors,
                   badDeferUnlock, badDeferRUnlock, pc>>

\* analyzeIfStatement: entry of the then-block.
IfEnter == Enter("if", "if{")

\* analyzeIfStatement: the then-block has returned and stmt.Else is nil.
IfExitNoElse == ExitReport("if", "if")

\* analyzeIfStatement: the then-block has returned and analyzeElseBranch starts.
IfExitElseEnter ==
    /\ pc = "run"
    /\ Len(frames) > 1
    /\ Top.kind = "if"
    /\ errors' = reportUnmatchedLocksInBranch(errors, Top.st, "if",
                                              mutexNames, rwMutexNames)
    /\ frames' = Append(Popped, Frame("else", copyStats(stats)))
    /\ body' = Append(body, Stmt("}else{", "", <<>>))
    /\ UNCHANGED <<wgVars, passVars>>
    /\ UNCHANGED <<mutexNames, rwMutexNames, stats, badDeferUnlock, badDeferRUnlock, pc>>

\* analyzeIfStatement: analyzeElseBranch has returned.
ElseExit == ExitReport("else", "else")

\* GoExit that merges the closure's stats into the spawning scope.
GoExitMerge == ExitMerge("go")

\* analyzeGoStatement on  go func() { ... }() .
GoEnter == Enter("go", "go func{")
GoExit  == ExitReport("go", "goroutine")

\* analyzeForStatement
ForEnter == Enter("for", "for{")
ForExit  == ExitMerge("for")

\* analyzeRangeStatement
RangeEnter == Enter("range", "range{")
RangeExit  == ExitMerge("range")

\* analyzeStatement on a nested *ast.BlockStmt
BlockEnter == Enter("block", "{")
BlockExit  == ExitMerge("block")

\* analyzeSwitchStatement: one case clause.
CaseEnter == Enter("case", "case{")
CaseExit  == ExitReport("case", "case")

\* analyzeTypeSwitchStatement: one case clause.
TypeCaseEnter == Enter("typecase", "typecase{")
TypeCaseExit  == ExitReport("typecase", "case")

\* analyzeSelectStatement: one comm clause.
CommEnter == Enter("comm", "comm{")
CommExit  == ExitReport("comm", "select")

\* AnalyzeFunction after analyzeBlock(fn.Body) has returned.
AnalyzeFunctionEnd ==
    /\ pc = "run"
    /\ Len(frames) = 1
    /\ errors' = reportUnmatchedLocks(errors, Top.st, mutexNames, rwMutexNames,
                                      badDeferUnlock, badDeferRUnlock)
    /\ pc' = "done"
    /\ UNCHANGED <<wgVars, passVars>>
    /\ UNCHANGED <<mutexNames, rwMutexNames, stats, frames,
                   badDeferUnlock, badDeferRUnlock, body>>

Next ==
    \/ AnalyzeFunctionBegin
    \/ ExprStmt
    \/ DeferCallStmt
    \/ DeferFuncLitStmt
    \/ OtherStmt
    \/ IfEnter
    \/ IfExitNoElse
    \/ IfExitElseEnter
    \/ ElseExit
    \/ GoEnter
    \/ GoExit
    \/ ForEnter
    \/ ForExit
    \/ RangeEnter
    \/ RangeExit
    \/ BlockEnter
    \/ BlockExit
    \/ CaseEnter
    \/ CaseExit
    \/ TypeCaseEnter
    \/ TypeCaseExit
    \/ CommEnter
    \/ CommExit
    \/ AnalyzeFunctionEnd

Spec == Init /\ [][Next]_vars

\* Function bodies that are a straight-line sequence of lock calls.
NextStraight ==
    \/ AnalyzeFunctionBegin
    \/ StraightExprStmt
    \/ AnalyzeFunctionEnd

SpecStraight == Init /\ [][NextStraight]_vars

\* Compound statements handled by analyzeStatement: frame kind and token.
ScopeKinds == {<<"if", "if{">>, <<"go", "go func{">>, <<"for", "for{">>,
               <<"range", "range{">>, <<"block", "{">>, <<"case", "case{">>,
               <<"typecase", "typecase{">>, <<"comm", "comm{">>}

\* Function bodies made of lock calls and compound statements.
NextScopes ==
    \/ AnalyzeFunctionBegin
    \/ ExprStmtUpTo(MaxScopeStmts)
    \/ \E k \in ScopeKinds : EnterUpTo(MaxScopeStmts, k[1], k[2])
    \/ IfExitNoElse
    \/ IfExitElseEnter
    \/ ElseExit
    \/ GoExit
    \/ ForExit
    \/ RangeExit
    \/ BlockExit
    \/ CaseExit
    \/ TypeCaseExit
    \/ CommExit
    \/ AnalyzeFunctionEnd

SpecScopes == Init /\ [][NextScopes]_vars

----------------------------------------------------------------------------
(* Properties.                                                             *)

Ops(b) == [i \in DOMAIN b |-> b[i].op]
Rep(op, n) == [i \in 1..n |-> op]
MutexType(v) == IF v \in rwMutexNames THEN "rwmutex" ELSE "mutex"
LockedMsg(v) == MutexType(v) \o " '" \o v \o "' is locked but not unlocked"
RLockedMsg(v) == "rwmutex '" \o v \o "' is rlocked but not runlocked"
UnlockedMsg(v) == MutexType(v) \o " '" \o v \o "' is unlocked but not locked"
RUnlockedMsg(v) == "rwmutex '" \o v \o "' is runlocked but not rlocked"
BadDeferMsg(v) == MutexType(v) \o " '" \o v \o "' has defer unlock but no corresponding lock"
Receivers(b) == {b[i].x : i \in DOMAIN b}

C3_BalancedNoDiagnostics ==
    \A v \in VarNames : \A N \in 0..MaxStraight :
        (/\ pc = "done"
         /\ Receivers(body) \subseteq {v}
         /\ \/ Ops(body) = Rep("Lock", N) \o Rep("Unlock", N)
            \/ Ops(body) = Rep("RLock", N) \o Rep("RUnlock", N))
        => errors = <<>>

C3_Witness ==
    /\ pc = "done"
    /\ Ops(body) = <<"RLock", "RLock", "RLock", "RUnlock", "RUnlock", "RUnlock">>
    /\ errors = <<>>
    /\ Top.st["mu"].rlockPos = <<>>

\* Position and receiver of the statement added by a step.
Added(op) == /\ pc = "run"
             /\ Len(body') = Len(body) + 1
             /\ body'[Len(body')].op = op
NewErrors == SubSeq(errors', Len(errors) + 1, Len(errors'))
KeepsErrors == Len(errors') >= Len(errors) /\ SubSeq(errors', 1, Len(errors)) = errors

NoLockOps == {"other", "if{", "}else{", "go func{", "for{", "range{", "{",
              "case{", "typecase{", "comm{", "}"}

C6_LockDeferUnlockClean ==
    \A v \in VarNames :
        (/\ pc = "done"
         /\ Len(body) >= 2
         /\ body[1] = Stmt("Lock", v, <<>>)
         /\ body[2] = Stmt("defer", v, <<Call(v, "Unlock")>>)
         /\ \A i \in 3..Len(body) : body[i].op \in NoLockOps)
        => errors = <<>>

C6_Witness ==
    /\ pc = "done"
    /\ Len(body) >= 4
    /\ body[1] = Stmt("Lock", "mu", <<>>)
    /\ body[2] = Stmt("defer", "mu", <<Call("mu", "Unlock")>>)
    /\ \A i \in 3..Len(body) : body[i].op \in NoLockOps
    /\ errors = <<>>

\* Diagnostics for what is outstanding in stats s of variable v, with a suffix.
Outstanding(v, s, suffix) ==
    [i \in 1..Len(s.lockPos) |-> ErrorReport(s.lockPos[i], LockedMsg(v) \o suffix)]
    \o (IF v \in rwMutexNames
        THEN [i \in 1..Len(s.rlockPos) |-> ErrorReport(s.rlockPos[i], RLockedMsg(v) \o suffix)]
        ELSE <<>>)
NoRepeat(q) == \A i, j \in DOMAIN q : i # j => q[i] # q[j]
\* The positions queued in s are distinct Lock() / RLock() calls of the body.
AtAcquisitionSites(s) ==
    /\ NoRepeat(s.lockPos) /\ NoRepeat(s.rlockPos)
    /\ \A i \in DOMAIN s.lockPos : body[s.lockPos[i]].op = "Lock"
    /\ \A i \in DOMAIN s.rlockPos : body[s.rlockPos[i]].op = "RLock"
Below == SubSeq(frames, 1, Len(frames) - 1)
BelowUnchanged == /\ Len(frames') >= Len(frames) - 1
                  /\ SubSeq(frames', 1, Len(frames) - 1) = Below
Exits == Len(body') = Len(body) + 1 /\ body'[Len(body')].op \in {"}", "}else{"}

ArmKinds == {"if", "else", "case", "typecase", "comm"}
ArmTag(kind) == CASE kind = "if" -> " in if"
                  [] kind = "else" -> " in else"
                  [] kind \in {"case", "typecase"} -> " in case"
                  [] kind = "comm" -> " in select"

\* C7: each arm of an if/else, switch, type-switch or select is its own
\* scope: what is outstanding at the end of the arm is reported exactly once
\* at its acquisition site with the arm's tag, and the arm leaves the counts
\* of the enclosing scope unchanged; if cond { Lock() } else { Lock();
\* Unlock() } yields exactly one diagnostic, tagged "in if".
C7_ArmsAreIndependent ==
    [][\A v \in VarNames :
        /\ (pc = "run" /\ Len(frames) > 1 /\ Top.kind \in ArmKinds)
            => /\ BelowUnchanged
               /\ Exits => /\ AtAcquisitionSites(Top.st[v])
                           /\ errors' = errors \o Outstanding(v, Top.st[v], ArmTag(Top.kind))
        /\ (/\ pc' = "done"
            /\ Ops(body') = <<"if{", "Lock", "}else{", "Lock", "Unlock", "}">>
            /\ Receivers(body') = {"", v})
            => errors' = <<ErrorReport(2, LockedMsg(v) \o " in if")>>
      ]_vars

C7_Witness ==
    /\ pc = "done"
    /\ Ops(body) = <<"if{", "Lock", "}else{", "Lock", "Unlock", "}">>
    /\ Len(errors) = 1
    /\ Top.st["mu"] = ZeroStats

\* C8: a goroutine closure body is an independent scope: what is outstanding
\* at the end of the closure is reported at its acquisition site tagged "in
\* goroutine", and neither the closure's acquisitions nor its releases
\* change the counts of the spawning scope.
C8_GoroutineIsIndependent ==
    [][\A v \in VarNames :
        (pc = "run" /\ Len(frames) > 1 /\ Top.kind = "go")
            => /\ BelowUnchanged
               /\ Exits => /\ AtAcquisitionSites(Top.st[v])
                           /\ errors' = errors \o Outstanding(v, Top.st[v], " in goroutine")
                           /\ frames' = Below
      ]_vars

C8_Witness ==
    /\ pc = "run"
    /\ Ops(body) = <<"Lock", "go func{", "Lock", "}">>
    /\ errors = <<ErrorReport(3, LockedMsg("mu") \o " in goroutine")>>
    /\ Len(frames) = 1
    /\ Top.st["mu"].lockPos = <<1>>

\* C9: a for/range loop body reports nothing at its own exit; its residual
\* counts and positions are added to the enclosing scope, so for ... {
\* Lock() } with no unlock yields exactly one untagged "is locked but not
\* unlocked" diagnostic at function level.
C9_LoopResidueMerged ==
    [][\A v \in VarNames :
        /\ (pc = "run" /\ Len(frames) > 1 /\ Top.kind \in {"for", "range"} /\ Exits)
            => /\ errors' = errors
               /\ Len(frames') = Len(frames) - 1
               /\ SubSeq(frames', 1, Len(frames) - 2) = SubSeq(frames, 1, Len(frames) - 2)
               /\ frames'[Len(frames')].kind = Parent.kind
               /\ frames'[Len(frames')].st[v] =
                    [lock     |-> Parent.st[v].lock + Top.st[v].lock,
                     rlock    |-> Parent.st[v].rlock + Top.st[v].rlock,
                     lockPos  |-> Parent.st[v].lockPos \o Top.st[v].lockPos,
                     rlockPos |-> Parent.st[v].rlockPos \o Top.st[v].rlockPos]
        /\ (/\ pc' = "done"
            /\ Ops(body') \in {<<"for{", "Lock", "}">>, <<"range{", "Lock", "}">>}
            /\ Receivers(body') = {"", v})
            => errors' = <<ErrorReport(2, LockedMsg(v))>>
      ]_vars

C9_Witness ==
    /\ pc = "done"
    /\ Ops(body) = <<"for{", "Lock", "}">>
    /\ errors = <<ErrorReport(2, LockedMsg("mu"))>>
    /\ Top.st["mu"].lock = 1

\* C10: at function end, for each lock variable without a bad-defer mark,
\* one untagged "is locked but not unlocked" (resp. "is rlocked but not
\* runlocked") diagnostic is emitted for each acquisition position still
\* queued in the top-level scope, and none for a variable with nothing
\* outstanding.
C10_FunctionEndReport ==
    [][\A v \in VarNames :
        (/\ pc = "run" /\ pc' = "done"
         /\ v \notin badDeferUnlock \cup badDeferRUnlock)
        => /\ Len(frames) = 1
           /\ AtAcquisitionSites(Top.st[v])
           /\ errors' = errors \o Outstanding(v, Top.st[v], "")
           /\ (Top.st[v].lock = 0 /\ Top.st[v].rlock = 0) => errors' = errors
      ]_vars

C10_Witness ==
    /\ pc = "done"
    /\ Top.st["mu"].lockPos = <<1>>
    /\ Top.st["mu"].rlockPos = <<2, 3>>
    /\ badDeferUnlock \cup badDeferRUnlock = {}
    /\ Len(errors) = 3
    /\ errors[3] = ErrorReport(3, RLockedMsg("mu"))

----------------------------------------------------------------------------
(* Join-counter analyzer (pkg/analyzer/waitgroup).                         *)
(*                                                                         *)
(* The analyzer makes whole-function passes over the syntax tree of one    *)
(* function.  A statement of the tree is a record                          *)
(*   [kind, pos, x, sel, value, body, hasElse, els, arms]                  *)
(* with kind                                                               *)
(*   "call"    the expression statement  x.sel(value)                      *)
(*   "defer"   defer x.sel()                                               *)
(*   "return", "panic" (panic(..)), "recv" (<-x), "pass" (f(&x))           *)
(*   "go"      go func() { body }()                                        *)
(*   "if"      if c { body } [else { els }]                                *)
(*   "for", "range", "block"   with a body                                 *)
(*   "switch", "typeswitch", "select"   with arms [isDefault, body]        *)
(* and pos the token.Pos at which the statement (and its call) starts.     *)

\* The argument of a call: an integer literal or some other expression.
Arg(lit, val) == [lit |-> lit, val |-> val]
NoArg == Arg(FALSE, 0)

WgStmt(kind, p, x, sel, value) ==
    [kind |-> kind, pos |-> p, x |-> x, sel |-> sel, value |-> value,
     body |-> <<>>, hasElse |-> FALSE, els |-> <<>>, arms |-> <<>>]

Arm(isDefault, b) == [isDefault |-> isDefault, body |-> b]

\* token.NoPos
NoPos == 0

RECURSIVE ArmStmts(_)
ArmStmts(arms) ==
    IF arms = <<>> THEN <<>> ELSE Head(arms).body \o ArmStmts(Tail(arms))

\* The statements directly below a statement, in source order.
Children(n) == n.body \o n.els \o ArmStmts(n.arms)

\* ast.Inspect: the statements of a list and everything nested in them,
\* in depth-first source order.
RECURSIVE Inspect(_)
Inspect(list) ==
    IF list = <<>> THEN <<>>
    ELSE <<Head(list)>> \o Inspect(Children(Head(list))) \o Inspect(Tail(list))

\* A *ast.CallExpr whose Fun is the selector name.sel .
IsSelCall(n, name, sel) == n.kind \in {"call", "defer"} /\ n.x = name /\ n.sel = sel

\* The *ast.GoStmt nodes of a list whose call is a function literal.
GoStmts(list) == SelectSeq(Inspect(list), LAMBDA n : n.kind = "go")

\* common.GetAddValue
GetAddValue(call) == IF call.value.lit THEN call.value.val ELSE 1

\* Stats{} with the three slices that initializeStats allocates.
ZeroWgStats == [addCalls |-> <<>>, doneCalls |-> <<>>, waitCalls |-> <<>>,
                doneCount |-> 0, hasDeferDone |-> FALSE, totalAdd |-> 0]

addCall(p, value) == [pos |-> p, value |-> value]

\* waitgroup initializeStats
initializeWgStats(names) == [n \in names |-> ZeroWgStats]

\* findDoneInFunctionLiteral: the deferred function literal calls Done on
\* the name somewhere.
findDoneInFunctionLiteral(litBody, n) ==
    \E i \in DOMAIN Inspect(litBody) : IsSelCall(Inspect(litBody)[i], n, "Done")

\* findDeferDoneCalls: any  defer name.Done()  and any deferred function
\* literal that calls name.Done(), anywhere in the function, sets the flag.
findDeferDoneCalls(st, fnBody) ==
    [n \in DOMAIN st |->
        [st[n] EXCEPT !.hasDeferDone =
            @ \/ \E i \in DOMAIN Inspect(fnBody) :
                    \/ /\ Inspect(fnBody)[i].kind = "defer"
                       /\ Inspect(fnBody)[i].sel = "Done"
                       /\ Inspect(fnBody)[i].x = n
                    \/ /\ Inspect(fnBody)[i].kind = "deferfunc"
                       /\ findDoneInFunctionLiteral(Inspect(fnBody)[i].body, n)]]

\* handleAddCall
handleAddCall(call, st) ==
    [st EXCEPT ![call.x] =
        [@ EXCEPT !.addCalls = Append(@, addCall(call.pos, GetAddValue(call))),
                  !.totalAdd = @ + GetAddValue(call)]]

\* handleDoneCall
handleDoneCall(call, st) ==
    [st EXCEPT ![call.x] =
        [@ EXCEPT !.doneCount = @ + 1, !.doneCalls = Append(@, call.pos)]]

\* handleWaitCall
handleWaitCall(call, st) ==
    [st EXCEPT ![call.x] = [@ EXCEPT !.waitCalls = Append(@, call.pos)]]

\* handleExpressionStatement
handleExpressionStatement(stmt, st) ==
    IF stmt.x \notin DOMAIN st THEN st
    ELSE CASE stmt.sel = "Add"  -> handleAddCall(stmt, st)
           [] stmt.sel = "Done" -> handleDoneCall(stmt, st)
           [] stmt.sel = "Wait" -> handleWaitCall(stmt, st)
           [] OTHER -> st

RECURSIVE traverseWithContext(_, _)
RECURSIVE traverseWithReportMap(_, _)
RECURSIVE traverseEach(_, _, _)

\* The loop  for _, nestedStmt := range list  of the four statement handlers;
\* withGo selects traverseWithContext, otherwise traverseWithReportMap.
traverseEach(list, st, withGo) ==
    IF list = <<>> THEN st
    ELSE traverseEach(Tail(list),
                      IF withGo THEN traverseWithContext(Head(list), st)
                      ELSE traverseWithReportMap(Head(list), st),
                      withGo)

\* handleForStatement
handleForStatement(stmt, st) == traverseEach(stmt.body, st, FALSE)

\* handleGoStatement
handleGoStatement(stmt, st) == traverseEach(stmt.body, st, FALSE)

\* handleBlockStatement
handleBlockStatement(list, st) == traverseEach(list, st, TRUE)

\* handleIfStatement
handleIfStatement(stmt, st) ==
    IF stmt.hasElse
    THEN handleBlockStatement(stmt.els, handleBlockStatement(stmt.body, st))
    ELSE handleBlockStatement(stmt.body, st)

\* traverseWithContext
traverseWithContext(n, st) ==
    CASE n.kind = "for"   -> handleForStatement(n, st)
      [] n.kind = "go"    -> handleGoStatement(n, st)
      [] n.kind = "block" -> handleBlockStatement(n.body, st)
      [] n.kind = "if"    -> handleIfStatement(n, st)
      [] n.kind = "call"  -> handleExpressionStatement(n, st)
      [] OTHER -> st

\* traverseWithReportMap
traverseWithReportMap(n, st) ==
    CASE n.kind = "for"   -> handleForStatement(n, st)
      [] n.kind = "block" -> handleBlockStatement(n.body, st)
      [] n.kind = "if"    -> handleIfStatement(n, st)
      [] n.kind = "call"  -> handleExpressionStatement(n, st)
      [] OTHER -> st

\* collectCalls
collectCalls(st, fnBody) == handleBlockStatement(fnBody, st)

\* collectStats
collectStats(names, fnBody) ==
    collectCalls(findDeferDoneCalls(initializeWgStats(names), fnBody), fnBody)

----------------------------------------------------------------------------
(* Goroutine closures.                                                     *)

\* isSimpleDeferDone
isSimpleDeferDone(s, wgName) == s.kind = "defer" /\ s.sel = "Done" /\ s.x = wgName

\* isRecoverCheck: the if statement starts with  r := recover() .
isRecoverCheck(s) == s.kind = "if" /\ s.sel = "recover"

\* isDeferPanicRecoveryPattern: a deferred function literal with an if
\* statement on recover() whose body calls Done on the name.
isDeferPanicRecoveryPattern(s, wgName) ==
    /\ s.kind = "deferfunc"
    /\ \E i \in DOMAIN Inspect(s.body) :
           /\ isRecoverCheck(Inspect(s.body)[i])
           /\ \E j \in DOMAIN Inspect(Inspect(s.body)[i].body) :
                  IsSelCall(Inspect(Inspect(s.body)[i].body)[j], wgName, "Done")

\* isInGoroutine: some call at that position lies in the body of a go closure.
isInGoroutine(fnBody, p) ==
    \E g \in DOMAIN GoStmts(fnBody) :
        \E i \in DOMAIN Inspect(GoStmts(fnBody)[g].body) :
            Inspect(GoStmts(fnBody)[g].body)[i].pos = p

\* isDeferDoneInGoroutine: the deferred Done calls on the name all lie in
\* go closures (and there is one).
isDeferDoneInGoroutine(fnBody, wgName) ==
    LET defers == {Inspect(fnBody)[i].pos : i \in
                     {j \in DOMAIN Inspect(fnBody) :
                         isSimpleDeferDone(Inspect(fnBody)[j], wgName)}}
    IN /\ \E p \in defers : isInGoroutine(fnBody, p)
       /\ ~ \E p \in defers : ~isInGoroutine(fnBody, p)

\* goroutineRelatedToWaitGroup: the closure calls some method on the name.
goroutineRelatedToWaitGroup(goStmt, wgName) ==
    \E i \in DOMAIN Inspect(goStmt.body) :
        /\ Inspect(goStmt.body)[i].kind \in {"call", "defer"}
        /\ Inspect(goStmt.body)[i].x = wgName

\* doneCallInfo
doneCallInfo(any, guaranteed) == [hasAnyDone |-> any, hasGuaranteedDone |-> guaranteed]

RECURSIVE analyzeDoneCallsFrom(_, _, _)
RECURSIVE analyzeArms(_, _, _, _, _)

\* analyzeDoneCalls
analyzeDoneCalls(block, wgName) ==
    analyzeDoneCallsFrom(block, wgName, doneCallInfo(FALSE, FALSE))

\* The loop over the clauses of analyzeSwitchStatement,
\* analyzeTypeSwitchStatement and analyzeSelectStatement, and their result.
analyzeArms(arms, wgName, info, hasDefault, defaultInfo) ==
    IF arms = <<>>
    THEN doneCallInfo(info.hasAnyDone, hasDefault /\ defaultInfo.hasGuaranteedDone)
    ELSE LET caseInfo == analyzeDoneCalls(Head(arms).body, wgName)
         IN analyzeArms(Tail(arms), wgName,
                        doneCallInfo(info.hasAnyDone \/ caseInfo.hasAnyDone, FALSE),
                        hasDefault \/ Head(arms).isDefault,
                        IF Head(arms).isDefault THEN caseInfo ELSE defaultInfo)

\* analyzeSwitchStatement that takes the guarantee of any one arm.
analyzeSwitchAnyArm(s, wgName) ==
    doneCallInfo(\E i \in DOMAIN s.arms : analyzeDoneCalls(s.arms[i].body, wgName).hasAnyDone,
                 \E i \in DOMAIN s.arms : analyzeDoneCalls(s.arms[i].body, wgName).hasGuaranteedDone)

\* analyzeSwitchStatement
analyzeSwitchStatement(s, wgName) ==
    analyzeArms(s.arms, wgName, doneCallInfo(FALSE, FALSE), FALSE, doneCallInfo(FALSE, FALSE))

\* analyzeTypeSwitchStatement
analyzeTypeSwitchStatement(s, wgName) ==
    analyzeArms(s.arms, wgName, doneCallInfo(FALSE, FALSE), FALSE, doneCallInfo(FALSE, FALSE))

\* analyzeSelectStatement that takes the guarantee of any one clause.
analyzeSelectAnyArm(s, wgName) ==
    doneCallInfo(\E i \in DOMAIN s.arms : analyzeDoneCalls(s.arms[i].body, wgName).hasAnyDone,
                 \E i \in DOMAIN s.arms : analyzeDoneCalls(s.arms[i].body, wgName).hasGuaranteedDone)

\* analyzeSelectStatement
analyzeSelectStatement(s, wgName) ==
    analyzeArms(s.arms, wgName, doneCallInfo(FALSE, FALSE), FALSE, doneCallInfo(FALSE, FALSE))

\* analyzeDoneCalls' statement switch with a loop body treated like a nested block.
analyzeDoneStmtLoopAsBlock(s, wgName, info) ==
    CASE isSimpleDeferDone(s, wgName) \/ isDeferPanicRecoveryPattern(s, wgName) ->
            doneCallInfo(TRUE, TRUE)
      [] s.kind = "call" /\ s.sel = "Done" /\ s.x = wgName -> doneCallInfo(TRUE, TRUE)
      [] s.kind = "if" ->
            LET thenInfo == analyzeDoneCalls(s.body, wgName)
                elseInfo == IF s.hasElse THEN analyzeDoneCalls(s.els, wgName)
                            ELSE doneCallInfo(FALSE, FALSE)
            IN doneCallInfo(info.hasAnyDone \/ thenInfo.hasAnyDone \/ elseInfo.hasAnyDone,
                            s.hasElse /\ thenInfo.hasGuaranteedDone
                                      /\ elseInfo.hasGuaranteedDone)
      [] s.kind = "switch" ->
            LET r == analyzeSwitchStatement(s, wgName)
            IN doneCallInfo(info.hasAnyDone \/ r.hasAnyDone, r.hasGuaranteedDone)
      [] s.kind = "typeswitch" ->
            LET r == analyzeTypeSwitchStatement(s, wgName)
            IN doneCallInfo(info.hasAnyDone \/ r.hasAnyDone, r.hasGuaranteedDone)
      [] s.kind = "select" ->
            LET r == analyzeSelectStatement(s, wgName)
            IN doneCallInfo(info.hasAnyDone \/ r.hasAnyDone, r.hasGuaranteedDone)
      [] s.kind \in {"for", "range", "block"} ->
            LET r == analyzeDoneCalls(s.body, wgName)
            IN doneCallInfo(info.hasAnyDone \/ r.hasAnyDone, r.hasGuaranteedDone)
      [] OTHER -> info

\* What one statement of the block adds to info in analyzeDoneCalls.
analyzeDoneStmt(s, wgName, info) ==
    CASE isSimpleDeferDone(s, wgName) \/ isDeferPanicRecoveryPattern(s, wgName) ->
            doneCallInfo(TRUE, TRUE)
      [] s.kind = "call" /\ s.sel = "Done" /\ s.x = wgName -> doneCallInfo(TRUE, TRUE)
      [] s.kind = "if" ->
            LET thenInfo == analyzeDoneCalls(s.body, wgName)
                elseInfo == IF s.hasElse THEN analyzeDoneCalls(s.els, wgName)
                            ELSE doneCallInfo(FALSE, FALSE)
            IN doneCallInfo(info.hasAnyDone \/ thenInfo.hasAnyDone \/ elseInfo.hasAnyDone,
                            s.hasElse /\ thenInfo.hasGuaranteedDone
                                      /\ elseInfo.hasGuaranteedDone)
      [] s.kind = "switch" ->
            LET r == analyzeSwitchStatement(s, wgName)
            IN doneCallInfo(info.hasAnyDone \/ r.hasAnyDone, r.hasGuaranteedDone)
      [] s.kind = "typeswitch" ->
            LET r == analyzeTypeSwitchStatement(s, wgName)
            IN doneCallInfo(info.hasAnyDone \/ r.hasAnyDone, r.hasGuaranteedDone)
      [] s.kind = "select" ->
            LET r == analyzeSelectStatement(s, wgName)
            IN doneCallInfo(info.hasAnyDone \/ r.hasAnyDone, r.hasGuaranteedDone)
      [] s.kind \in {"for", "range"} ->
            doneCallInfo(info.hasAnyDone \/ analyzeDoneCalls(s.body, wgName).hasAnyDone,
                         FALSE)
      [] s.kind = "block" ->
            LET r == analyzeDoneCalls(s.body, wgName)
            IN doneCallInfo(info.hasAnyDone \/ r.hasAnyDone, r.hasGuaranteedDone)
      [] OTHER -> info

\* The statement loop of analyzeDoneCalls: it returns at the first statement
\* that guarantees a Done.
analyzeDoneCallsFrom(block, wgName, info) ==
    IF block = <<>> \/ info.hasGuaranteedDone THEN info
    ELSE analyzeDoneCallsFrom(Tail(block), wgName,
                              analyzeDoneStmt(Head(block), wgName, info))

\* isTerminatingStatement
isTerminatingStatement(s) == s.kind \in {"return", "panic"}

\* containsDoneCall
containsDoneCall(s, wgName) ==
    \E i \in DOMAIN Inspect(<<s>>) : IsSelCall(Inspect(<<s>>)[i], wgName, "Done")

\* hasUnreachableDone
RECURSIVE hasUnreachableDone(_, _)
hasUnreachableDone(list, wgName) ==
    \E i \in DOMAIN list :
        \/ /\ isTerminatingStatement(list[i])
           /\ \E j \in (i + 1)..Len(list) : containsDoneCall(list[j], wgName)
        \/ /\ list[i].kind = "if"
           /\ \/ hasUnreachableDone(list[i].body, wgName)
              \/ list[i].hasElse /\ hasUnreachableDone(list[i].els, wgName)
        \/ /\ list[i].kind \in {"for", "block"}
           /\ hasUnreachableDone(list[i].body, wgName)

\* findRelatedAddCall: the last Add before the go statement, else the first
\* Add of the function, else token.NoPos.
findRelatedAddCall(fnBody, goStmt, wgName) ==
    LET allAdds == SelectSeq(Inspect(fnBody), LAMBDA n : IsSelCall(n, wgName, "Add"))
        before  == SelectSeq(allAdds, LAMBDA n : n.pos < goStmt.pos)
    IN IF before # <<>> THEN before[Len(before)].pos
       ELSE IF allAdds # <<>> THEN allAdds[1].pos
       ELSE NoPos

----------------------------------------------------------------------------
(* Validation.  Every check takes the collector's entries and returns them *)
(* with its diagnostics appended.                                          *)

\* sort.Slice by position, for addCalls.
RECURSIVE sortAddCalls(_)
sortAddCalls(calls) ==
    IF calls = <<>> THEN <<>>
    ELSE LET m == CHOOSE i \in DOMAIN calls :
                      \A j \in DOMAIN calls : calls[i].pos <= calls[j].pos
         IN <<calls[m]>> \o
            sortAddCalls(SubSeq(calls, 1, m - 1) \o SubSeq(calls, m + 1, Len(calls)))

\* sort.Slice for a slice of token.Pos.
RECURSIVE sortPositions(_)
sortPositions(ps) ==
    IF ps = <<>> THEN <<>>
    ELSE LET m == CHOOSE i \in DOMAIN ps : \A j \in DOMAIN ps : ps[i] <= ps[j]
         IN <<ps[m]>> \o
            sortPositions(SubSeq(ps, 1, m - 1) \o SubSeq(ps, m + 1, Len(ps)))

\* The loop of reportUnmatchedAdds over the sorted Add calls.
RECURSIVE walkAdds(_, _, _, _)
walkAdds(calls, remainingDone, wgName, errs) ==
    IF calls = <<>> THEN errs
    ELSE IF remainingDone >= Head(calls).value
         THEN walkAdds(Tail(calls), remainingDone - Head(calls).value, wgName, errs)
         ELSE walkAdds(Tail(calls), remainingDone, wgName,
                       AddError(errs, Head(calls).pos,
                           "waitgroup '" \o wgName \o "' has Add without corresponding Done"))

\* reportUnmatchedAdds whose comparator sorts the Add calls last first.
reportUnmatchedAddsDescending(wgName, st, totalExpectedDone, errs) ==
    walkAdds([i \in DOMAIN st.addCalls |->
                 sortAddCalls(st.addCalls)[Len(st.addCalls) + 1 - i]],
             totalExpectedDone, wgName, errs)

\* reportUnmatchedAdds that compares every Add with the whole budget and
\* spends nothing of it.
reportUnmatchedAddsNoSpend(wgName, st, totalExpectedDone, errs) ==
    LET over == SelectSeq(sortAddCalls(st.addCalls),
                          LAMBDA a : totalExpectedDone < a.value)
    IN  errs \o [i \in DOMAIN over |->
                    ErrorReport(over[i].pos,
                        "waitgroup '" \o wgName \o "' has Add without corresponding Done")]

\* reportUnmatchedAdds
reportUnmatchedAdds(wgName, st, totalExpectedDone, errs) ==
    walkAdds(sortAddCalls(st.addCalls), totalExpectedDone, wgName, errs)

\* The reporting loop of reportExcessDones, from index i (1-based) on.
RECURSIVE reportFrom(_, _, _, _)
reportFrom(ps, i, wgName, errs) ==
    IF i > Len(ps) \/ i < 1 THEN errs
    ELSE reportFrom(ps, i + 1, wgName,
                    AddError(errs, ps[i],
                        "waitgroup '" \o wgName \o "' has Done without corresponding Add"))

\* reportExcessDones that reports the first main-flow Done calls.
reportFirstDones(wgName, st, totalExpectedDone, mainFlowDoneCount, fnBody, errs) ==
    IF totalExpectedDone <= st.totalAdd THEN errs
    ELSE IF mainFlowDoneCount > st.totalAdd
         THEN LET mainFlowDoneCalls ==
                      sortPositions(SelectSeq(st.doneCalls,
                                              LAMBDA p : ~isInGoroutine(fnBody, p)))
                  excessCount == mainFlowDoneCount - st.totalAdd
              IN reportFrom(SubSeq(mainFlowDoneCalls, 1, excessCount), 1, wgName, errs)
         ELSE errs

\* reportExcessDones
reportExcessDones(wgName, st, totalExpectedDone, mainFlowDoneCount, fnBody, errs) ==
    IF totalExpectedDone <= st.totalAdd THEN errs
    ELSE IF mainFlowDoneCount > st.totalAdd
         THEN LET mainFlowDoneCalls ==
                      sortPositions(SelectSeq(st.doneCalls,
                                              LAMBDA p : ~isInGoroutine(fnBody, p)))
                  excessCount == mainFlowDoneCount - st.totalAdd
                  startIndex  == Len(mainFlowDoneCalls) - excessCount
              IN reportFrom(mainFlowDoneCalls, startIndex + 1, wgName, errs)
         ELSE errs

\* The body of the ast.Inspect callback of countGuaranteedDoneInGoroutines,
\* applied to the go statements in source order; acc is [count, errors].
RECURSIVE countGuaranteedFrom(_, _, _, _)
countGuaranteedFrom(gos, fnBody, wgName, acc) ==
    IF gos = <<>> THEN acc
    ELSE LET g        == Head(gos)
             doneInfo == analyzeDoneCalls(g.body, wgName)
             related  == findRelatedAddCall(fnBody, g, wgName)
         IN countGuaranteedFrom(Tail(gos), fnBody, wgName,
              IF ~goroutineRelatedToWaitGroup(g, wgName) THEN acc
              ELSE IF doneInfo.hasGuaranteedDone
                   THEN [acc EXCEPT !.count = @ + 1]
              ELSE IF ~doneInfo.hasAnyDone /\ related # NoPos
                   THEN [acc EXCEPT !.errors = AddError(@, related,
                           "waitgroup '" \o wgName \o "' has Add without corresponding Done")]
              ELSE acc)

\* countGuaranteedDoneInGoroutines that records only whether some goroutine
\* guarantees a Done.
countGuaranteedAsFlag(fnBody, wgName, errs) ==
    LET r == countGuaranteedFrom(GoStmts(fnBody), fnBody, wgName,
                                 [count |-> 0, errors |-> errs])
    IN [r EXCEPT !.count = IF @ > 0 THEN 1 ELSE 0]

\* countGuaranteedDoneInGoroutines
countGuaranteedDoneInGoroutines(fnBody, wgName, errs) ==
    countGuaranteedFrom(GoStmts(fnBody), fnBody, wgName, [count |-> 0, errors |-> errs])

\* mainFlowDoneCount of validateBalance
mainFlowDoneCount(fnBody, st) ==
    Len(SelectSeq(st.doneCalls, LAMBDA p : ~isInGoroutine(fnBody, p)))

\* The unit that validateBalance adds for a deferred Done, decided by the
\* first argument.
deferDoneUnit(inGoroutine, st) == IF st.hasDeferDone /\ ~inGoroutine THEN 1 ELSE 0

\* totalDone of validateBalance
totalDone(fnBody, wgName, st) ==
    mainFlowDoneCount(fnBody, st)
    + deferDoneUnit(isDeferDoneInGoroutine(fnBody, wgName), st)
    + countGuaranteedDoneInGoroutines(fnBody, wgName, <<>>).count

\* validateBalance
validateBalance(wgName, st, fnBody, errs) ==
    LET afterCount == countGuaranteedDoneInGoroutines(fnBody, wgName, errs).errors
        total      == totalDone(fnBody, wgName, st)
        afterAdds  == IF st.totalAdd > total
                      THEN reportUnmatchedAdds(wgName, st, total, afterCount)
                      ELSE afterCount
    IN IF total > st.totalAdd
       THEN reportExcessDones(wgName, st, total, mainFlowDoneCount(fnBody, st),
                              fnBody, afterAdds)
       ELSE afterAdds

\* isWaitGroupPassedToOtherFunctions
isWaitGroupPassedToOtherFunctions(fnBody, wgName) ==
    \E i \in DOMAIN Inspect(fnBody) :
        Inspect(fnBody)[i].kind = "pass" /\ Inspect(fnBody)[i].x = wgName

\* checkWaitGroupBalance, over the names in some iteration order of the map.
RECURSIVE checkWaitGroupBalance(_, _, _, _)
checkWaitGroupBalance(names, st, fnBody, errs) ==
    IF names = {} THEN errs
    ELSE LET wgName == CHOOSE n \in names : TRUE
         IN checkWaitGroupBalance(names \ {wgName}, st, fnBody,
              IF /\ isWaitGroupPassedToOtherFunctions(fnBody, wgName)
                 /\ st[wgName].doneCount = 0
                 /\ ~st[wgName].hasDeferDone
                 /\ Len(st[wgName].addCalls) > 0
              THEN errs
              ELSE validateBalance(wgName, st[wgName], fnBody, errs))

\* checkAddInGoroutine: every Add call on the name in the closure is reported.
RECURSIVE reportAddsIn(_, _, _)
reportAddsIn(nodes, wgName, errs) ==
    IF nodes = <<>> THEN errs
    ELSE reportAddsIn(Tail(nodes), wgName,
            IF IsSelCall(Head(nodes), wgName, "Add")
            THEN AddError(errs, Head(nodes).pos,
                     "waitgroup '" \o wgName \o "' Add called after Wait")
            ELSE errs)

\* checkAddInGoroutine that stops at the first Add call of the closure.
checkFirstAddInGoroutine(goStmt, wgName, errs) ==
    LET adds == SelectSeq(Inspect(goStmt.body), LAMBDA n : IsSelCall(n, wgName, "Add"))
    IN IF adds = <<>> THEN errs
       ELSE AddError(errs, adds[1].pos, "waitgroup '" \o wgName \o "' Add called after Wait")

checkAddInGoroutine(goStmt, wgName, errs) ==
    reportAddsIn(Inspect(goStmt.body), wgName, errs)

\* The ast.Inspect of checkAddAfterWaitInGoroutines for one Wait.
RECURSIVE checkGoStmtsAfter(_, _, _, _)
checkGoStmtsAfter(gos, waitPos, wgName, errs) ==
    IF gos = <<>> THEN errs
    ELSE checkGoStmtsAfter(Tail(gos), waitPos, wgName,
            IF Head(gos).pos > waitPos
            THEN checkAddInGoroutine(Head(gos), wgName, errs)
            ELSE errs)

\* checkAddAfterWaitInGoroutines, from the given Wait calls on.
RECURSIVE checkAddAfterWaitInGoroutines(_, _, _, _)
checkAddAfterWaitInGoroutines(waitCalls, wgName, fnBody, errs) ==
    IF waitCalls = <<>> THEN errs
    ELSE checkAddAfterWaitInGoroutines(Tail(waitCalls), wgName, fnBody,
            checkGoStmtsAfter(GoStmts(fnBody), Head(waitCalls), wgName, errs))

\* hasOperationsBefore that looks at the Add calls only.
hasAddBefore(wait, st, fnBody) ==
    \E i \in DOMAIN st.addCalls :
        st.addCalls[i].pos < wait /\ ~isInGoroutine(fnBody, st.addCalls[i].pos)

\* hasOperationsBefore of checkAddAfterWaitInMainFlow
hasOperationsBefore(wait, st, fnBody) ==
    \/ \E i \in DOMAIN st.addCalls :
           st.addCalls[i].pos < wait /\ ~isInGoroutine(fnBody, st.addCalls[i].pos)
    \/ \E i \in DOMAIN st.doneCalls :
           st.doneCalls[i] < wait /\ ~isInGoroutine(fnBody, st.doneCalls[i])

\* The inner loop of checkAddAfterWaitInMainFlow over the Add calls.
RECURSIVE reportAddsAfter(_, _, _, _, _)
reportAddsAfter(adds, wait, wgName, fnBody, errs) ==
    IF adds = <<>> THEN errs
    ELSE reportAddsAfter(Tail(adds), wait, wgName, fnBody,
            IF Head(adds).pos > wait /\ ~isInGoroutine(fnBody, Head(adds).pos)
            THEN AddError(errs, Head(adds).pos,
                     "waitgroup '" \o wgName \o "' Add called after Wait")
            ELSE errs)

\* checkAddAfterWaitInMainFlow, from the given Wait calls on.
RECURSIVE checkAddAfterWaitInMainFlow(_, _, _, _, _)
checkAddAfterWaitInMainFlow(waitCalls, wgName, st, fnBody, errs) ==
    IF waitCalls = <<>> THEN errs
    ELSE checkAddAfterWaitInMainFlow(Tail(waitCalls), wgName, st, fnBody,
            IF hasOperationsBefore(Head(waitCalls), st, fnBody) THEN errs
            ELSE reportAddsAfter(st.addCalls, Head(waitCalls), wgName, fnBody, errs))

\* checkAddAfterWait, over the names in some iteration order of the map.
RECURSIVE checkAddAfterWait(_, _, _, _)
checkAddAfterWait(names, st, fnBody, errs) ==
    IF names = {} THEN errs
    ELSE LET wgName == CHOOSE n \in names : TRUE
         IN checkAddAfterWait(names \ {wgName}, st, fnBody,
              checkAddAfterWaitInMainFlow(st[wgName].waitCalls, wgName, st[wgName], fnBody,
                  checkAddAfterWaitInGoroutines(st[wgName].waitCalls, wgName, fnBody, errs)))

\* isInConditional: the call at p lies in some if statement of the scope.
isInConditional(p, scope) ==
    \E i \in DOMAIN Inspect(scope) :
        /\ Inspect(scope)[i].kind = "if"
        /\ \E j \in DOMAIN Inspect(Children(Inspect(scope)[i])) :
               Inspect(Children(Inspect(scope)[i]))[j].pos = p

\* analyzeLoopBalance for one counter name.
analyzeLoopBalance(forStmt, wgName, errs) ==
    LET calls == SelectSeq(Inspect(forStmt.body),
                           LAMBDA n : n.kind = "call" /\ n.x = wgName)
        adds  == SelectSeq(calls, LAMBDA n : n.sel = "Add")
        dones == SelectSeq(calls, LAMBDA n : n.sel = "Done")
        unconditionalDones ==
            Len(SelectSeq(dones, LAMBDA n : ~isInConditional(n.pos, forStmt.body)))
        conditionalDones ==
            Len(SelectSeq(dones, LAMBDA n : isInConditional(n.pos, forStmt.body)))
        RECURSIVE reportAll(_, _)
        reportAll(as, e) ==
            IF as = <<>> THEN e
            ELSE reportAll(Tail(as), AddError(e, Head(as).pos,
                     "waitgroup '" \o wgName \o "' has Add without corresponding Done"))
    IN IF Len(adds) > 0 /\ unconditionalDones = 0 /\ conditionalDones > 0
       THEN reportAll(adds, errs)
       ELSE errs

\* checkLoopAddDoneBalance: analyzeLoopBalance on every for statement.
RECURSIVE checkLoopsFrom(_, _, _)
checkLoopsFrom(fors, names, errs) ==
    IF fors = <<>> THEN errs
    ELSE LET RECURSIVE eachName(_, _)
             eachName(ns, e) ==
                 IF ns = {} THEN e
                 ELSE LET wgName == CHOOSE n \in ns : TRUE
                      IN eachName(ns \ {wgName}, analyzeLoopBalance(Head(fors), wgName, e))
         IN checkLoopsFrom(Tail(fors), names, eachName(names, errs))

checkLoopAddDoneBalance(names, fnBody, errs) ==
    checkLoopsFrom(SelectSeq(Inspect(fnBody), LAMBDA n : n.kind = "for"), names, errs)

\* The ast.Inspect of checkUnreachableDone for one counter name.
RECURSIVE checkUnreachableFrom(_, _, _, _)
checkUnreachableFrom(gos, fnBody, wgName, errs) ==
    IF gos = <<>> THEN errs
    ELSE checkUnreachableFrom(Tail(gos), fnBody, wgName,
            IF /\ hasUnreachableDone(Head(gos).body, wgName)
               /\ findRelatedAddCall(fnBody, Head(gos), wgName) # NoPos
            THEN AddError(errs, findRelatedAddCall(fnBody, Head(gos), wgName),
                     "waitgroup '" \o wgName \o "' has Add without corresponding Done")
            ELSE errs)

\* checkUnreachableDone
RECURSIVE checkUnreachableDone(_, _, _)
checkUnreachableDone(names, fnBody, errs) ==
    IF names = {} THEN errs
    ELSE LET wgName == CHOOSE n \in names : TRUE
         IN checkUnreachableDone(names \ {wgName}, fnBody,
                checkUnreachableFrom(GoStmts(fnBody), fnBody, wgName, errs))

\* validateUsage
validateUsage(st, names, fnBody, errs) ==
    checkWaitGroupBalance(names, st, fnBody,
        checkUnreachableDone(names, fnBody,
            checkLoopAddDoneBalance(names, fnBody,
                checkAddAfterWait(names, st, fnBody, errs))))

----------------------------------------------------------------------------
(* The function handed to the join-counter analyzer.  Its syntax tree is   *)
(* assembled one statement at a time: `function` holds the blocks still    *)
(* open, innermost last, and `body` the statements read so far, so that    *)
(* the position of a statement is again its index in `body`.               *)

\* Bounds on the analysed function.
MaxAddValue == 2
MaxWgStraight == 5
MaxWgGo == 5
MaxWgWorkers == 6
MaxWgReach == 5
MaxWgArms == 8
MaxArms == 2
MaxConstructs == 1
MaxWgExcess == 5
MaxWgPass == 5
MaxWgDefer == 4

\* Identifiers that primitive discovery classified as join counters.
WgNames == {"wg"}

\* Integer literals passed to Add.
AddArgs == {Arg(TRUE, v) : v \in 1..MaxAddValue}

ArmContainers == {"switch", "typeswitch", "select"}
ArmKindsOf(k) == IF k = "select" THEN {"comm", "default"} ELSE {"case", "default"}

\* An open block: the statement that opened it and what it holds so far.
Block(kind, p) ==
    [kind |-> kind, pos |-> p, stmts |-> <<>>, thenBody |-> <<>>, arms |-> <<>>]

WgTop == function[Len(function)]
FnBody == function[1].stmts

\* The innermost open block receives one more statement.
Push(blocks, node) == [blocks EXCEPT ![Len(blocks)].stmts = Append(@, node)]

\* The statement that an open block becomes when it is closed.
Closed(b) ==
    CASE b.kind = "else" ->
            [WgStmt("if", b.pos, "", "", NoArg)
                EXCEPT !.body = b.thenBody, !.hasElse = TRUE, !.els = b.stmts]
      [] b.kind \in ArmContainers ->
            [WgStmt(b.kind, b.pos, "", "", NoArg) EXCEPT !.arms = b.arms]
      [] OTHER ->
            [WgStmt(b.kind, b.pos, "", "", NoArg) EXCEPT !.body = b.stmts]

InitWG ==
    /\ mutexNames = {}
    /\ rwMutexNames = {}
    /\ stats = [n \in {} |-> ZeroStats]
    /\ frames = <<>>
    /\ errors = <<>>
    /\ badDeferUnlock = {}
    /\ badDeferRUnlock = {}
    /\ body = <<>>
    /\ pc = "wg"
    /\ waitGroupNames = WgNames
    /\ function = <<Block("func", 0)>>
    /\ wgStats = <<>>
    /\ reported = <<>>
    /\ firstRun = NoRun
    /\ added = <<>>
    /\ comments = <<>>
    /\ filtered = NoCall

mutexVars == <<mutexNames, rwMutexNames, stats, frames, badDeferUnlock, badDeferRUnlock>>

\* A statement may be added in a block of one of the kinds `scopes`, while
\* the function has fewer than `bound` statements.
WgCanAdd(bound, scopes) ==
    /\ pc = "wg"
    /\ NumStmts(body) < bound
    /\ WgTop.kind \in scopes

\* An expression statement  name.sel(..)  with sel among sels.
WgCall(bound, scopes, sels) ==
    /\ WgCanAdd(bound, scopes)
    /\ \E name \in waitGroupNames : \E sel \in sels :
       \E value \in (IF sel = "Add" THEN AddArgs ELSE {NoArg}) :
          /\ function' = Push(function, WgStmt("call", NextPos, name, sel, value))
          /\ body' = Append(body, Stmt(sel, name, <<value.val>>))
    /\ UNCHANGED <<passVars, mutexVars, errors, pc, waitGroupNames, wgStats>>

\* defer name.Done()
WgDeferDone(bound, scopes) ==
    /\ WgCanAdd(bound, scopes)
    /\ \E name \in waitGroupNames :
          /\ function' = Push(function, WgStmt("defer", NextPos, name, "Done", NoArg))
          /\ body' = Append(body, Stmt("defer Done", name, <<>>))
    /\ UNCHANGED <<passVars, mutexVars, errors, pc, waitGroupNames, wgStats>>

\* return, panic(..) or a receive  <-ch .
WgSimple(bound, scopes, kinds) ==
    /\ WgCanAdd(bound, scopes)
    /\ \E kind \in kinds :
          /\ function' = Push(function, WgStmt(kind, NextPos, "", "", NoArg))
          /\ body' = Append(body, Stmt(kind, "", <<>>))
    /\ UNCHANGED <<passVars, mutexVars, errors, pc, waitGroupNames, wgStats>>

\* A call, or a go statement on a named function, that has the counter among
\* its arguments: f(&name), f(name), f(name.Done).
WgPass(bound, scopes) ==
    /\ WgCanAdd(bound, scopes)
    /\ \E name \in waitGroupNames :
          /\ function' = Push(function, WgStmt("pass", NextPos, name, "", NoArg))
          /\ body' = Append(body, Stmt("pass", name, <<>>))
    /\ UNCHANGED <<passVars, mutexVars, errors, pc, waitGroupNames, wgStats>>

\* defer func() { name.Done() }()  or, when recovers,
\* defer func() { if r := recover(); r != nil { name.Done() } }()
DeferFunc(p, name, recovers) ==
    LET done == WgStmt("call", IF recovers THEN p + 2 ELSE p + 1, name, "Done", NoArg)
    IN [WgStmt("deferfunc", p, "", "", NoArg) EXCEPT !.body =
           IF recovers
           THEN <<[WgStmt("if", p + 1, "", "recover", NoArg) EXCEPT !.body = <<done>>]>>
           ELSE <<done>>]

WgDeferFunc(bound, scopes) ==
    /\ WgCanAdd(bound, scopes)
    /\ \E name \in waitGroupNames : \E recovers \in BOOLEAN :
          /\ function' = Push(function, DeferFunc(NextPos, name, recovers))
          /\ body' = body \o
                (IF recovers
                 THEN <<Stmt("defer func{", "", <<>>), Stmt("if recover{", "", <<>>),
                        Stmt("Done", name, <<0>>), Stmt("}", "", <<>>), Stmt("}", "", <<>>)>>
                 ELSE <<Stmt("defer func{", "", <<>>), Stmt("Done", name, <<0>>),
                        Stmt("}", "", <<>>)>>)
    /\ UNCHANGED <<passVars, mutexVars, errors, pc, waitGroupNames, wgStats>>

\* The opening of a compound statement of one of the kinds `kinds`.
WgOpen(bound, scopes, kinds) ==
    /\ WgCanAdd(bound, scopes)
    /\ \E kind \in kinds :
          /\ function' = Append(function, Block(kind, NextPos))
          /\ body' = Append(body, Stmt(kind \o "{", "", <<>>))
    /\ UNCHANGED <<passVars, mutexVars, errors, pc, waitGroupNames, wgStats>>

\* The opening of a clause of a switch, type switch or select; a statement
\* has at most one default clause.
WgArmOpen ==
    /\ pc = "wg"
    /\ WgTop.kind \in ArmContainers
    /\ Len(WgTop.arms) < MaxArms
    /\ \E kind \in ArmKindsOf(WgTop.kind) :
          /\ kind = "default" => \A i \in DOMAIN WgTop.arms : ~WgTop.arms[i].isDefault
          /\ function' = Append(function, Block(kind, NextPos))
          /\ body' = Append(body, Stmt(kind \o ":", "", <<>>))
    /\ UNCHANGED <<passVars, mutexVars, errors, pc, waitGroupNames, wgStats>>

\* The end of a clause: it joins the clauses of its statement.
WgArmClose ==
    /\ pc = "wg"
    /\ WgTop.kind \in {"case", "comm", "default"}
    /\ function' = [SubSeq(function, 1, Len(function) - 1)
                      EXCEPT ![Len(function) - 1].arms =
                          Append(@, Arm(WgTop.kind = "default", WgTop.stmts))]
    /\ body' = Append(body, Stmt("}", "", <<>>))
    /\ UNCHANGED <<passVars, mutexVars, errors, pc, waitGroupNames, wgStats>>

\* The then-block of an if statement ends and its else-block begins.
WgElse ==
    /\ pc = "wg"
    /\ WgTop.kind = "if"
    /\ function' = [function EXCEPT ![Len(function)] =
                      [@ EXCEPT !.kind = "else", !.thenBody = WgTop.stmts, !.stmts = <<>>]]
    /\ body' = Append(body, Stmt("}else{", "", <<>>))
    /\ UNCHANGED <<passVars, mutexVars, errors, pc, waitGroupNames, wgStats>>

\* The end of a compound statement: it joins the enclosing block.
WgClose ==
    /\ pc = "wg"
    /\ Len(function) > 1
    /\ WgTop.kind \notin {"case", "comm", "default"}
    /\ function' = Push(SubSeq(function, 1, Len(function) - 1), Closed(WgTop))
    /\ body' = Append(body, Stmt("}", "", <<>>))
    /\ UNCHANGED <<passVars, mutexVars, errors, pc, waitGroupNames, wgStats>>

\* waitgroup AnalyzeFunction: collectStats, then validateUsage.
WgAnalyzeFunction ==
    /\ pc = "wg"
    /\ Len(function) = 1
    /\ wgStats' = collectStats(waitGroupNames, FnBody)
    /\ errors' = validateUsage(wgStats', waitGroupNames, FnBody, errors)
    /\ pc' = "wgdone"
    /\ UNCHANGED <<passVars, mutexVars, body, waitGroupNames, function>>

\* Functions made of counter calls and of go closures that hold counter
\* calls and deferred Done calls.
NextWgGo ==
    \/ WgCall(MaxWgGo, {"func", "go"}, {"Add", "Done", "Wait"})
    \/ WgDeferDone(MaxWgGo, {"go"})
    \/ WgOpen(MaxWgGo, {"func"}, {"go"})
    \/ WgClose
    \/ WgAnalyzeFunction

SpecWgGo == InitWG /\ [][NextWgGo]_vars

\* Functions that add and wait at the top level and mark completion inside
\* go closures only.
NextWgWorkers ==
    \/ WgCall(MaxWgWorkers, {"func"}, {"Add", "Wait"})
    \/ WgCall(MaxWgWorkers, {"go"}, {"Done"})
    \/ WgDeferDone(MaxWgWorkers, {"go"})
    \/ WgOpen(MaxWgWorkers, {"func"}, {"go"})
    \/ WgClose
    \/ WgAnalyzeFunction

SpecWgWorkers == InitWG /\ [][NextWgWorkers]_vars

\* Functions that add and wait at the top level and start go closures
\* whose statements are Done calls, deferred Done calls, returns, panics,
\* channel receives and if statements that hold returns and Done calls.
NextWgReach ==
    \/ WgCall(MaxWgReach, {"func"}, {"Add", "Wait"})
    \/ WgCall(MaxWgReach, {"go", "if"}, {"Done"})
    \/ WgDeferDone(MaxWgReach, {"go"})
    \/ WgSimple(MaxWgReach, {"go"}, {"return", "panic", "recv"})
    \/ WgSimple(MaxWgReach, {"if"}, {"return"})
    \/ WgOpen(MaxWgReach, {"func"}, {"go"})
    \/ WgOpen(MaxWgReach, {"go"}, {"if"})
    \/ WgClose
    \/ WgAnalyzeFunction

SpecWgReach == InitWG /\ [][NextWgReach]_vars

\* An Add call as the first statement of the function.
WgFirstAdd(bound) ==
    /\ body = <<>>
    /\ WgCall(bound, {"func"}, {"Add"})

\* The go statement of a function that starts one goroutine.
WgOneGo(bound) ==
    /\ NumOps(body, {"go{"}) = 0
    /\ WgOpen(bound, {"func"}, {"go"})

\* A Done call as the first statement of a branch or clause.
WgBranchDone(bound) ==
    /\ WgTop.stmts = <<>>
    /\ WgCall(bound, {"if", "else", "case", "comm", "default"}, {"Done"})

\* The opening of one of the conditional statements of a go closure.
WgConditional(bound) ==
    /\ NumOps(body, {"if{", "switch{", "typeswitch{", "select{"}) < MaxConstructs
    /\ WgOpen(bound, {"go"}, {"if", "switch", "typeswitch", "select"})

\* Functions that start with an Add call or not and start one go closure
\* made of if, switch, type switch and select statements whose branches
\* hold Done calls.
NextWgArms ==
    \/ WgFirstAdd(MaxWgArms)
    \/ WgBranchDone(MaxWgArms)
    \/ WgOneGo(MaxWgArms)
    \/ WgConditional(MaxWgArms)
    \/ WgArmOpen
    \/ WgArmClose
    \/ WgElse
    \/ WgClose
    \/ WgAnalyzeFunction

SpecWgArms == InitWG /\ [][NextWgArms]_vars

\* Functions made of counter calls and deferred Done calls at the top level
\* and of go closures that hold Done calls and deferred Done calls.
NextWgExcess ==
    \/ WgCall(MaxWgExcess, {"func"}, {"Add", "Done", "Wait"})
    \/ WgCall(MaxWgExcess, {"go"}, {"Done"})
    \/ WgDeferDone(MaxWgExcess, {"func", "go"})
    \/ WgOpen(MaxWgExcess, {"func"}, {"go"})
    \/ WgClose
    \/ WgAnalyzeFunction

SpecWgExcess == InitWG /\ [][NextWgExcess]_vars

\* Functions that add, wait and hand the counter to other functions, at the
\* top level and in loops, and start go closures that wait.
NextWgPass ==
    \/ WgCall(MaxWgPass, {"func", "for", "range"}, {"Add"})
    \/ WgCall(MaxWgPass, {"func", "go"}, {"Wait"})
    \/ WgPass(MaxWgPass, {"func", "for", "range"})
    \/ WgOpen(MaxWgPass, {"func"}, {"go", "for", "range"})
    \/ WgClose
    \/ WgAnalyzeFunction

SpecWgPass == InitWG /\ [][NextWgPass]_vars

\* Functions that add and wait at the top level, defer a Done call or a
\* function literal that calls Done, at the top level and in go closures,
\* and panic in go closures.
NextWgDefer ==
    \/ WgCall(MaxWgDefer, {"func"}, {"Add", "Wait"})
    \/ WgDeferDone(MaxWgDefer, {"func", "go"})
    \/ WgDeferFunc(MaxWgDefer, {"func", "go"})
    \/ WgSimple(MaxWgDefer, {"go"}, {"panic"})
    \/ WgOpen(MaxWgDefer, {"func"}, {"go"})
    \/ WgClose
    \/ WgAnalyzeFunction

SpecWgDefer == InitWG /\ [][NextWgDefer]_vars

\* Functions that are a straight-line sequence of counter calls.
NextWgStraight ==
    \/ WgCall(MaxWgStraight, {"func"}, {"Add", "Done", "Wait"})
    \/ WgDeferDone(MaxWgStraight, {"func"})
    \/ WgAnalyzeFunction

SpecWgStraight == InitWG /\ [][NextWgStraight]_vars

----------------------------------------------------------------------------
(* Properties of the join-counter analyzer.                                *)

WgAddMsg(v)  == "waitgroup '" \o v \o "' has Add without corresponding Done"
WgDoneMsg(v) == "waitgroup '" \o v \o "' has Done without corresponding Add"
WgWaitMsg(v) == "waitgroup '" \o v \o "' Add called after Wait"

\* The positions, in emission order, of the collected diagnostics with a message.
PosOf(errs, message) ==
    LET sel == SelectSeq(errs, LAMBDA e : e.Message = message)
    IN [i \in DOMAIN sel |-> sel[i].Pos]

\* Indices of the statements of b with the given op.
At(b, op) == {i \in DOMAIN b : b[i].op = op}

\* Sum of the Add values among the first n statements of b.
RECURSIVE SumAdds(_, _)
SumAdds(b, n) ==
    IF n = 0 THEN 0
    ELSE SumAdds(b, n - 1) + (IF b[n].op = "Add" THEN b[n].lit[1] ELSE 0)

\* Effective decrements of a straight-line body: its Done calls, plus one
\* if it has a deferred Done.
StraightDecrements(b) ==
    Cardinality(At(b, "Done")) + (IF At(b, "defer Done") # {} THEN 1 ELSE 0)

\* The Add calls of b from statement i on that a budget does not cover, the
\* budget being spent in position order on the Add calls it does cover.
RECURSIVE Uncovered(_, _, _)
Uncovered(b, i, budget) ==
    IF i > Len(b) THEN <<>>
    ELSE IF b[i].op # "Add" THEN Uncovered(b, i + 1, budget)
    ELSE IF budget < b[i].lit[1] THEN <<i>> \o Uncovered(b, i + 1, budget)
    ELSE Uncovered(b, i + 1, budget - b[i].lit[1])

WgTokens(ops) == [i \in DOMAIN ops |-> Stmt(ops[i][1], "wg", <<ops[i][2]>>)]

\* C11: when the total increment of a counter exceeds its effective
\* decrements, "has Add without corresponding Done" is reported at exactly
\* the Add calls that the budget of effective decrements, spent in position
\* order, does not cover; Add(2); Add(1); Done(); Wait() gives exactly one
\* diagnostic, at Add(2).
C11_UnmatchedAddsByBudget ==
    pc = "wgdone" =>
        /\ SumAdds(body, Len(body)) > StraightDecrements(body) =>
              PosOf(errors, WgAddMsg("wg")) = Uncovered(body, 1, StraightDecrements(body))
        /\ body = WgTokens(<< <<"Add", 2>>, <<"Add", 1>>, <<"Done", 0>>, <<"Wait", 0>> >>) =>
              errors = <<ErrorReport(1, WgAddMsg("wg"))>>

C11_Witness ==
    /\ pc = "wgdone"
    /\ body = WgTokens(<< <<"Add", 2>>, <<"Add", 1>>, <<"Done", 0>>, <<"Wait", 0>> >>)
    /\ errors = <<ErrorReport(1, WgAddMsg("wg"))>>

\* go func() { defer wg.Done() }()
IsDeferDoneClosure(n) ==
    /\ n.kind = "go"
    /\ Len(n.body) = 1
    /\ isSimpleDeferDone(n.body[1], "wg")

\* Add(k), then k closures that each defer a Done, then Wait().
AddThenWorkers(list) ==
    /\ Len(list) >= 3
    /\ list[1].kind = "call" /\ list[1].sel = "Add"
    /\ list[1].value = Arg(TRUE, Len(list) - 2)
    /\ \A i \in 2..(Len(list) - 1) : IsDeferDoneClosure(list[i])
    /\ list[Len(list)].kind = "call" /\ list[Len(list)].sel = "Wait"

\* C12: Add(k), then k go closures that each begin with a deferred Done,
\* then Wait() yields no diagnostic, for every k >= 1.
C12_WorkersBalanceAdd ==
    pc = "wgdone" /\ AddThenWorkers(FnBody) => errors = <<>>

C12_Witness ==
    /\ pc = "wgdone"
    /\ AddThenWorkers(FnBody)
    /\ Len(FnBody) = 4
    /\ wgStats["wg"].totalAdd = 2
    /\ errors = <<>>


\* Statement i of b lies inside a go closure (closures are the only
\* compound statements of b).
InClosure(b, i) ==
    Cardinality({j \in At(b, "go{") : j < i}) > Cardinality({j \in At(b, "}") : j < i})

\* Statement j of b has a main-flow Add or Done before it.
MainFlowOpBefore(b, j) ==
    \E k \in At(b, "Add") \cup At(b, "Done") : k < j /\ ~InClosure(b, k)

\* C13: a main-flow Add is reported "Add called after Wait" if and only if
\* some Wait precedes it that has no main-flow Add or Done before it; an Add
\* after a Wait that had such an operation before it is not reported.
C13_MainFlowAddAfterEmptyWait ==
    pc = "wgdone" =>
        \A i \in At(body, "Add") :
            ~InClosure(body, i) =>
                ((\E e \in DOMAIN errors : errors[e] = ErrorReport(i, WgWaitMsg("wg")))
                 <=> \E j \in At(body, "Wait") : j < i /\ ~MainFlowOpBefore(body, j))

C13_Witness ==
    /\ pc = "wgdone"
    /\ body = WgTokens(<< <<"Wait", 0>>, <<"Add", 1>>, <<"Done", 0>> >>)
    /\ errors = <<ErrorReport(2, WgWaitMsg("wg"))>>


\* The go statement whose closure holds statement i of b.
GoOf(b, i) == CHOOSE g \in At(b, "go{") : g < i /\ \A h \in At(b, "go{") : h < i => h <= g

\* C14: every Add inside a go closure whose go statement follows a Wait is
\* reported "Add called after Wait", whatever precedes that Wait;
\* Wait(); go func(){ Add(1); Done() }() gives exactly one diagnostic, at
\* the Add.
C14_AddInGoroutineAfterWait ==
    pc = "wgdone" =>
        /\ \A i \in At(body, "Add") :
              (InClosure(body, i) /\ \E j \in At(body, "Wait") : j < GoOf(body, i))
                  => \E e \in DOMAIN errors : errors[e] = ErrorReport(i, WgWaitMsg("wg"))
        /\ body = <<Stmt("Wait", "wg", <<0>>), Stmt("go{", "", <<>>),
                    Stmt("Add", "wg", <<1>>), Stmt("Done", "wg", <<0>>), Stmt("}", "", <<>>)>>
              => errors = <<ErrorReport(3, WgWaitMsg("wg"))>>

C14_Witness ==
    /\ pc = "wgdone"
    /\ body = <<Stmt("Wait", "wg", <<0>>), Stmt("go{", "", <<>>),
                Stmt("Add", "wg", <<1>>), Stmt("Done", "wg", <<0>>), Stmt("}", "", <<>>)>>
    /\ errors = <<ErrorReport(3, WgWaitMsg("wg"))>>


\* The tokens of a function, from <<op, value>> pairs.
WgBody(ops) ==
    [i \in DOMAIN ops |->
        IF ops[i][1] \in {"Add", "Done", "Wait"} THEN Stmt(ops[i][1], "wg", <<ops[i][2]>>)
        ELSE IF ops[i][1] = "defer Done" THEN Stmt("defer Done", "wg", <<>>)
        ELSE Stmt(ops[i][1], "", <<>>)]

\* Add(1); go func(){ <-ch; Done() }()  with no send on ch in the function.
BlockedReceiveBody ==
    WgBody(<< <<"Add", 1>>, <<"go{", 0>>, <<"recv", 0>>, <<"Done", 0>>, <<"}", 0>> >>)

\* C15: for Add(1); go func(){ <-ch; Done() }() with no sender on ch,
\* exactly one diagnostic is produced, "has Add without corresponding
\* Done", at the Add(1) call.
C15_BlockedReceiveReported ==
    (pc = "wgdone" /\ body = BlockedReceiveBody)
        => errors = <<ErrorReport(1, WgAddMsg("wg"))>>


\* Every Done call (deferred or not) of the list and of the blocks nested in
\* it follows a return or panic statement of its own block.
RECURSIVE EveryDoneAfterTerminator(_)
EveryDoneAfterTerminator(list) ==
    \A i \in DOMAIN list :
        /\ IsSelCall(list[i], "wg", "Done") =>
              \E j \in 1..(i - 1) : list[j].kind \in {"return", "panic"}
        /\ EveryDoneAfterTerminator(Children(list[i]))

\* Add(1), then one go closure that has Done calls, all of them after a
\* return or panic of their block, then possibly Wait().
OneWorkerWithUnreachableDone(list) ==
    /\ Len(list) \in {2, 3}
    /\ list[1].kind = "call" /\ list[1].sel = "Add" /\ list[1].value = Arg(TRUE, 1)
    /\ list[2].kind = "go"
    /\ \E i \in DOMAIN Inspect(list[2].body) : IsSelCall(Inspect(list[2].body)[i], "wg", "Done")
    /\ EveryDoneAfterTerminator(list[2].body)
    /\ Len(list) = 3 => list[3].kind = "call" /\ list[3].sel = "Wait"

\* C16: when every Done call of a go closure follows a return or panic
\* statement of its block, exactly one "has Add without corresponding Done"
\* diagnostic is produced, at the Add call related to the goroutine.
C16_UnreachableDoneReportedOnce ==
    (pc = "wgdone" /\ OneWorkerWithUnreachableDone(FnBody))
        => errors = <<ErrorReport(1, WgAddMsg("wg"))>>


\* go func() { if c { return }; wg.Done() }()  or the same with a deferred
\* Done.
IsConditionalReturnClosure(n) ==
    /\ n.kind = "go"
    /\ Len(n.body) = 2
    /\ n.body[1].kind = "if" /\ ~n.body[1].hasElse
    /\ Len(n.body[1].body) = 1 /\ n.body[1].body[1].kind = "return"
    /\ IsSelCall(n.body[2], "wg", "Done")

\* Add(k), then k go closures of which each defers a Done at once or returns
\* conditionally before its Done, and at least one does the latter, then
\* possibly Wait().
WorkersWithConditionalReturn(list) ==
    LET n == IF list[Len(list)].kind = "go" THEN Len(list) ELSE Len(list) - 1
    IN /\ n >= 2
       /\ list[1].kind = "call" /\ list[1].sel = "Add" /\ list[1].value = Arg(TRUE, n - 1)
       /\ \A i \in 2..n : IsDeferDoneClosure(list[i]) \/ IsConditionalReturnClosure(list[i])
       /\ \E i \in 2..n : IsConditionalReturnClosure(list[i])
       /\ n < Len(list) => list[Len(list)].kind = "call" /\ list[Len(list)].sel = "Wait"

\* C17: a go closure whose Done or deferred Done comes after an if statement
\* whose body returns does not guarantee a decrement, so the Add that
\* announces it is reported "has Add without corresponding Done".
C17_ConditionalReturnNotGuaranteed ==
    (pc = "wgdone" /\ Len(FnBody) >= 2 /\ WorkersWithConditionalReturn(FnBody))
        => errors = <<ErrorReport(1, WgAddMsg("wg"))>>


\* A branch or clause, holding counter calls only, that performs a Done.
BranchGuarantees(list) == \E i \in DOMAIN list : IsSelCall(list[i], "wg", "Done")

\* Every branch of the conditional statement s performs a Done: both branches
\* of an if; every clause of a switch, type switch or select, one of which is
\* the default clause.
EveryBranchGuarantees(s) ==
    IF s.kind = "if"
    THEN s.hasElse /\ BranchGuarantees(s.body) /\ BranchGuarantees(s.els)
    ELSE /\ \E i \in DOMAIN s.arms : s.arms[i].isDefault
         /\ \A i \in DOMAIN s.arms : BranchGuarantees(s.arms[i].body)

\* Both branches of the if statement s perform a Done, or the default clause
\* of the switch, type switch or select s does.
BothOrDefaultGuarantee(s) ==
    IF s.kind = "if"
    THEN s.hasElse /\ BranchGuarantees(s.body) /\ BranchGuarantees(s.els)
    ELSE \E i \in DOMAIN s.arms : s.arms[i].isDefault /\ BranchGuarantees(s.arms[i].body)

\* Add(1), then one go closure: its Done is counted as guaranteed exactly
\* when the function gets no diagnostic.
OneWorker(list) ==
    /\ Len(list) = 2
    /\ list[1].kind = "call" /\ list[1].sel = "Add" /\ list[1].value = Arg(TRUE, 1)
    /\ list[2].kind = "go"

\* C18 as stated: a Done nested in a conditional statement of a go closure is
\* counted as guaranteed only if every branch guarantees a Done: both
\* branches of an if; every case clause as well as the default clause of a
\* switch, type switch or select.
C18_EveryArmMustGuarantee ==
    (pc = "wgdone" /\ OneWorker(FnBody) /\ errors = <<>>)
        => \E i \in DOMAIN FnBody[2].body : EveryBranchGuarantees(FnBody[2].body[i])

\* C18, amended: the Done is counted as guaranteed exactly when, for an if,
\* both branches guarantee a Done and, for a switch, type switch or select,
\* the default clause does, whatever the other clauses hold; otherwise the
\* Add is reported once.
C18_BothBranchesOrDefault ==
    (pc = "wgdone" /\ OneWorker(FnBody)) =>
        IF \E i \in DOMAIN FnBody[2].body : BothOrDefaultGuarantee(FnBody[2].body[i])
        THEN errors = <<>>
        ELSE errors = <<ErrorReport(1, WgAddMsg("wg"))>>

\* Add(1); go func(){ switch { case: ; default: Done() } }()
C18_Witness ==
    /\ pc = "wgdone"
    /\ body = WgBody(<< <<"Add", 1>>, <<"go{", 0>>, <<"switch{", 0>>, <<"case:", 0>>,
                        <<"}", 0>>, <<"default:", 0>>, <<"Done", 0>>, <<"}", 0>>,
                        <<"}", 0>>, <<"}", 0>> >>)
    /\ errors = <<>>


\* A switch, type switch or select without default clause.
NoDefault(s) ==
    /\ s.kind \in ArmContainers
    /\ \A i \in DOMAIN s.arms : ~s.arms[i].isDefault

\* Add(v), then one go closure made of switch, type switch and select
\* statements without default clause, with a Done in some clause.
WorkerWithoutDefault(list) ==
    /\ Len(list) = 2
    /\ list[1].kind = "call" /\ list[1].sel = "Add"
    /\ list[2].kind = "go"
    /\ \A i \in DOMAIN list[2].body : NoDefault(list[2].body[i])
    /\ \E i \in DOMAIN Inspect(list[2].body) : IsSelCall(Inspect(list[2].body)[i], "wg", "Done")

\* C19: a switch, type switch or select without default clause never yields
\* a guaranteed Done, whatever its clauses hold; a goroutine whose only Done
\* calls are in such clauses counts for no decrement and its Add is reported
\* "has Add without corresponding Done".
C19_NoDefaultNeverGuaranteed ==
    (pc = "wgdone" /\ WorkerWithoutDefault(FnBody)) =>
        /\ ~analyzeDoneCalls(FnBody[2].body, "wg").hasGuaranteedDone
        /\ totalDone(FnBody, "wg", wgStats["wg"]) = 0
        /\ errors = <<ErrorReport(1, WgAddMsg("wg"))>>

\* Add(1); go func(){ switch { case: Done(); case: Done() } }()
C19_Witness ==
    /\ pc = "wgdone"
    /\ body = WgBody(<< <<"Add", 1>>, <<"go{", 0>>, <<"switch{", 0>>, <<"case:", 0>>,
                        <<"Done", 0>>, <<"}", 0>>, <<"case:", 0>>, <<"Done", 0>>,
                        <<"}", 0>>, <<"}", 0>>, <<"}", 0>> >>)
    /\ errors = <<ErrorReport(1, WgAddMsg("wg"))>>


\* The elements of a set of positions, in increasing order.
RECURSIVE InOrder(_)
InOrder(S) ==
    IF S = {} THEN <<>>
    ELSE LET m == CHOOSE x \in S : \A y \in S : x <= y
         IN <<m>> \o InOrder(S \ {m})

\* The last n elements of a sequence (all of them if it has fewer).
LastN(s, n) == IF n <= 0 THEN <<>> ELSE SubSeq(s, IF Len(s) > n THEN Len(s) - n + 1 ELSE 1, Len(s))

MainFlowDones(b) == {i \in At(b, "Done") : ~InClosure(b, i)}
HasTopLevelDefer(b) == \E i \in At(b, "defer Done") : ~InClosure(b, i)

\* The go closures of b that hold a Done or a deferred Done: each counts for
\* one decrement.
DoneClosures(b) == {g \in At(b, "go{") : b[g + 1].op # "}"}

\* Effective decrements of b: main-flow Done calls, one for a top-level
\* deferred Done, one for each closure that guarantees a Done.
EffectiveDecrements(b) ==
    Cardinality(MainFlowDones(b)) + (IF HasTopLevelDefer(b) THEN 1 ELSE 0)
    + Cardinality(DoneClosures(b))

\* C20 as stated: when the effective decrements exceed the total increment
\* by e, the last e Done call sites in position order, one fewer with a
\* top-level deferred Done, are reported "has Done without corresponding
\* Add".
C20_LastExcessSitesReported ==
    (pc = "wgdone" /\ EffectiveDecrements(body) > SumAdds(body, Len(body))) =>
        PosOf(errors, WgDoneMsg("wg")) =
            LastN(InOrder(At(body, "Done")),
                  EffectiveDecrements(body) - SumAdds(body, Len(body))
                  - (IF HasTopLevelDefer(body) THEN 1 ELSE 0))

\* C20, amended: when the effective decrements exceed the total increment,
\* the reported Done calls are the main-flow Done calls beyond the first
\* totalAdd in position order; the decrements of go closures and of a
\* top-level deferred Done are counted but never reported.
\* Add(1); Done(); Done(); Wait() gives exactly one diagnostic, at the
\* second Done.
C20_MainFlowExcessReported ==
    pc = "wgdone" =>
        /\ EffectiveDecrements(body) > SumAdds(body, Len(body)) =>
              PosOf(errors, WgDoneMsg("wg")) =
                  LastN(InOrder(MainFlowDones(body)),
                        Cardinality(MainFlowDones(body)) - SumAdds(body, Len(body)))
        /\ body = WgTokens(<< <<"Add", 1>>, <<"Done", 0>>, <<"Done", 0>>, <<"Wait", 0>> >>) =>
              errors = <<ErrorReport(3, WgDoneMsg("wg"))>>

C20_Witness ==
    /\ pc = "wgdone"
    /\ body = WgTokens(<< <<"Add", 1>>, <<"Done", 0>>, <<"Done", 0>>, <<"Wait", 0>> >>)
    /\ errors = <<ErrorReport(3, WgDoneMsg("wg"))>>


\* Some diagnostic about the balance of Add and Done was emitted.
ImbalanceReported ==
    \E e \in DOMAIN errors : errors[e].Message \in {WgAddMsg("wg"), WgDoneMsg("wg")}

\* C21: when the counter is an argument of some call of the function and the
\* function has no Done call and no deferred Done on it, no Add/Done
\* imbalance diagnostic is produced, whatever its Add calls;
\* Add(1); go handleWork(&wg) gives no diagnostic.
C21_PassedCounterNotBalanced ==
    pc = "wgdone" =>
        /\ (At(body, "pass") # {} /\ At(body, "Done") = {} /\ At(body, "defer Done") = {})
              => ~ImbalanceReported
        /\ body = <<Stmt("Add", "wg", <<1>>), Stmt("pass", "wg", <<>>)>> => errors = <<>>


\* The statements of a list and of the blocks nested in them, those inside
\* go closures left out.
RECURSIVE OutsideClosures(_)
OutsideClosures(list) ==
    IF list = <<>> THEN <<>>
    ELSE <<Head(list)>>
         \o (IF Head(list).kind = "go" THEN <<>> ELSE OutsideClosures(Children(Head(list))))
         \o OutsideClosures(Tail(list))

\* A deferred Done, or a deferred function literal that calls Done, outside
\* every go closure.
HasTopLevelDeferredDone(list) ==
    \E i \in DOMAIN OutsideClosures(list) :
        OutsideClosures(list)[i].kind \in {"defer", "deferfunc"}

\* Add(2); go func(){ defer func(){ if r := recover(); r != nil { Done() } }() }()
RecoverWorkerBody ==
    <<Stmt("Add", "wg", <<2>>), Stmt("go{", "", <<>>), Stmt("defer func{", "", <<>>),
      Stmt("if recover{", "", <<>>), Stmt("Done", "wg", <<0>>), Stmt("}", "", <<>>),
      Stmt("}", "", <<>>), Stmt("}", "", <<>>)>>

\* C22: the one unit for a top-level deferred decrement is added to the
\* effective decrements only when a deferred Done exists at the function's
\* top level; a deferred Done inside a go closure, plain or in a deferred
\* function literal such as a recover block, never contributes it and is
\* counted once, through the goroutine guarantee: a single recovering worker
\* does not balance Add(2).
C22_DeferUnitOnlyAtTopLevel ==
    pc = "wgdone" =>
        /\ deferDoneUnit(isDeferDoneInGoroutine(FnBody, "wg"), wgStats["wg"])
              = (IF HasTopLevelDeferredDone(FnBody) THEN 1 ELSE 0)
        /\ body = RecoverWorkerBody => errors = <<ErrorReport(1, WgAddMsg("wg"))>>


----------------------------------------------------------------------------
(***************************************************************************)
(* The diagnostic collector (common/report) and the driver's flush.        *)
(*                                                                         *)
(* A token.Pos is an integer; the file set of the pass turns it into a     *)
(* (Filename, Line, Column) triple.  The file set below holds two files;   *)
(* the one registered first is named "b.go", so that the order of the      *)
(* integers is not the order of the triples.                               *)
(***************************************************************************)
\* Bound on the AddError calls of one run.
MaxReports == 3

\* token.FileSet: the files in the order they were registered, each with its
\* base, its size and the offsets at which its lines start.
Files == << [Name |-> "b.go", Base |-> 1, Size |-> 3, Lines |-> <<0, 2>>],
            [Name |-> "a.go", Base |-> 5, Size |-> 11, Lines |-> <<0, 2>>] >>

\* Positions and messages the analyzers hand to the collector.
EcPositions == {1, 2, 3, 5}
EcMessages == {"err1", "err2"}

\* The file names in the order of Go's < on strings.
FileNameOrder == <<"a.go", "b.go">>

\* a < b on file names.
StringLess(a, b) ==
    \E i, j \in 1..Len(FileNameOrder) :
        FileNameOrder[i] = a /\ FileNameOrder[j] = b /\ i < j

\* token.FileSet.Position: the file whose range holds p, the last line that
\* starts at or before the offset of p, and the offset within that line.
PositionIn(files, p) ==
    LET f == CHOOSE g \in {files[i] : i \in 1..Len(files)} :
                 g.Base <= p /\ p <= g.Base + g.Size
        offset == p - f.Base
        line == CHOOSE l \in 1..Len(f.Lines) :
                    /\ f.Lines[l] <= offset
                    /\ \A m \in 1..Len(f.Lines) : f.Lines[m] <= offset => m <= l
    IN  [Filename |-> f.Name, Line |-> line, Column |-> offset - f.Lines[line] + 1]

\* The positions of the files of the pass.
FilePositions == UNION {Files[i].Base..(Files[i].Base + Files[i].Size) : i \in 1..Len(Files)}

\* pass.Fset.Position on each of them.
PositionTable == [p \in FilePositions |-> PositionIn(Files, p)]

\* pass.Fset.Position
Position(p) == PositionTable[p]

\* A comparison that orders the token.Pos integers themselves.
lessByPos(a, b) == a.Pos < b.Pos

\* The less function ReportAll hands to sort.Slice.
less(a, b) ==
    LET posI == Position(a.Pos)
        posJ == Position(b.Pos)
    IN  IF posI.Filename # posJ.Filename THEN StringLess(posI.Filename, posJ.Filename)
        ELSE IF posI.Line # posJ.Line THEN posI.Line < posJ.Line
        ELSE posI.Column < posJ.Column

\* Where sort.Slice puts data[i].  A slice of at most twelve elements, which
\* is all the model's collector ever holds, is sorted by insertion sort: an
\* element moves left past the elements it is less than, so it ends behind
\* the elements that are less than it and behind the earlier elements it is
\* not less than.
rankOf(data, i) ==
    1 + Cardinality({j \in 1..Len(data) :
            \/ less(data[j], data[i])
            \/ j < i /\ ~less(data[i], data[j])})

\* sort.Slice(ec.errors, less)
sortSlice(data) ==
    [r \in 1..Len(data) |-> data[CHOOSE i \in 1..Len(data) : rankOf(data, i) = r]]

\* run: a new ErrorCollector, before any function is analysed.
InitReport ==
    /\ mutexNames = {}
    /\ rwMutexNames = {}
    /\ stats = [n \in {} |-> ZeroStats]
    /\ frames = <<>>
    /\ errors = <<>>
    /\ badDeferUnlock = {}
    /\ badDeferRUnlock = {}
    /\ body = <<>>
    /\ pc = "collect"
    /\ waitGroupNames = {}
    /\ function = <<>>
    /\ wgStats = <<>>
    /\ reported = <<>>
    /\ firstRun = NoRun
    /\ added = <<>>
    /\ comments = <<>>
    /\ filtered = NoCall

analyzerVars == <<mutexVars, body, waitGroupNames, function, wgStats>>

\* An analyzer calls ErrorCollector.AddError.
EcAddError ==
    /\ pc = "collect"
    /\ firstRun = NoRun
    /\ Len(errors) < MaxReports
    /\ \E p \in EcPositions, m \in EcMessages :
          /\ errors' = AddError(errors, p, m)
          /\ added' = Append(added, ErrorReport(p, m))
    /\ UNCHANGED <<analyzerVars, pc, reported, firstRun, comments, filtered>>

\* The entries of `all` that `some` does not hold yet, counting repetitions.
Missing(all, some) ==
    {e \in {all[i] : i \in 1..Len(all)} :
        Cardinality({i \in 1..Len(some) : some[i] = e})
            < Cardinality({i \in 1..Len(all) : all[i] = e})}

\* A later run over the same input: the analyzers find what the earlier run
\* found, in any order.
EcAddErrorAgain ==
    /\ pc = "collect"
    /\ firstRun # NoRun
    /\ \E e \in Missing(firstRun.added, added) :
          /\ errors' = AddError(errors, e.Pos, e.Message)
          /\ added' = Append(added, e)
    /\ UNCHANGED <<analyzerVars, pc, reported, firstRun, comments, filtered>>

\* A driver that flushes after the lock-balance analyzer only.
flushAfterLocksOnly == pc \in {"collect", "done"}

\* The longest slice that sort.Slice sorts by insertion sort alone.
maxInsertion == 12

\* The entries of q without the first occurrence of e.
removeFirst(q, e) ==
    LET i == CHOOSE k \in 1..Len(q) : q[k] = e /\ \A m \in 1..(k - 1) : q[m] # e
    IN  SubSeq(q, 1, i - 1) \o SubSeq(q, i + 1, Len(q))

\* Every order in which the entries of q can stand.
RECURSIVE arrangements(_)
arrangements(q) ==
    IF q = <<>> THEN {<<>>}
    ELSE UNION {{<<e>> \o r : r \in arrangements(removeFirst(q, e))} :
                    e \in {q[i] : i \in 1..Len(q)}}

\* Every order of the sorted slice q that is sorted too: runs of entries
\* that less does not tell apart may stand in any order.
RECURSIVE sortedArrangements(_)
sortedArrangements(q) ==
    IF q = <<>> THEN {<<>>}
    ELSE LET run  == SelectSeq(q, LAMBDA e : ~less(q[1], e))
             rest == SubSeq(q, Len(run) + 1, Len(q))
         IN  {a \o r : a \in arrangements(run), r \in sortedArrangements(rest)}

\* What sort.Slice(data, less) may leave in the slice.  "The sort is not
\* guaranteed to be stable": up to maxInsertion entries the insertion sort
\* keeps entries that less does not tell apart in their order, beyond that
\* the order of such entries is unspecified.
sortSliceOutcomes(data) ==
    IF Len(data) <= maxInsertion THEN {sortSlice(data)}
    ELSE sortedArrangements(sortSlice(data))

\* run reaches errorCollector.ReportAll when analyzeFunctions has returned:
\* the analyzers it called are through.
CanFlush == pc \in {"collect", "done", "wgdone"}

\* ErrorCollector.ReportAll: sort ec.errors in place, then one pass.Reportf
\* per entry.
ReportAll ==
    /\ CanFlush
    /\ firstRun # NoRun => Missing(firstRun.added, added) = {}
    /\ errors' \in sortSliceOutcomes(errors)
    /\ reported' = reported \o errors'
    /\ pc' = "reported"
    /\ UNCHANGED <<analyzerVars, firstRun, added, comments, filtered>>

\* run is called once more on the same package, with a new ErrorCollector.
RunAgain ==
    /\ pc = "reported"
    /\ firstRun = NoRun
    /\ firstRun' = [NoRun EXCEPT !.added = added, !.reported = reported, !.runs = 1]
    /\ errors' = <<>>
    /\ added' = <<>>
    /\ reported' = <<>>
    /\ pc' = "collect"
    /\ UNCHANGED <<analyzerVars, comments, filtered>>

NextReport ==
    \/ EcAddError
    \/ EcAddErrorAgain
    \/ ReportAll
    \/ RunAgain

SpecReport == InitReport /\ [][NextReport]_vars

\* The number of times e occurs in q.
Count(q, e) == Cardinality({i \in 1..Len(q) : q[i] = e})

\* q and r hold the same entries, each the same number of times.
SameEntries(q, r) ==
    /\ Len(q) = Len(r)
    /\ \A i \in 1..Len(q) : Count(q, q[i]) = Count(r, q[i])

\* (filename, line, column) of a comes strictly before that of b.
TripleBefore(a, b) ==
    LET x == Position(a.Pos)
        y == Position(b.Pos)
    IN  \/ StringLess(x.Filename, y.Filename)
        \/ x.Filename = y.Filename /\ x.Line < y.Line
        \/ x.Filename = y.Filename /\ x.Line = y.Line /\ x.Column < y.Column

\* C23: ReportAll emits exactly the entries added with AddError, each as
\* often as it was added, and no emitted entry is followed by one whose
\* (filename, line, column) is smaller, whatever the order of the AddError
\* calls was.
C23_ReportAllSortsWhatWasAdded ==
    pc = "reported" =>
        /\ SameEntries(reported, added)
        /\ \A i, j \in 1..Len(reported) :
              i < j => ~TripleBefore(reported[j], reported[i])

\* Three entries added in the order b.go:2:1, a.go:1:1, b.go:1:2 and emitted
\* in the order a.go:1:1, b.go:1:2, b.go:2:1.
C23_Witness ==
    /\ pc = "reported"
    /\ added = <<ErrorReport(3, "err1"), ErrorReport(5, "err2"), ErrorReport(2, "err1")>>
    /\ reported = <<ErrorReport(5, "err2"), ErrorReport(2, "err1"), ErrorReport(3, "err1")>>


\* Both runs have flushed their collector.
BothRunsReported == pc = "reported" /\ firstRun # NoRun

\* C24: the emitted order depends on the collected (position, message)
\* pairs only: two runs that add the same pairs, in whatever order each,
\* emit the same sequence, also when two different messages share one
\* position.
C24_EmittedOrderIndependentOfAddOrder ==
    (BothRunsReported /\ SameEntries(added, firstRun.added)) =>
        reported = firstRun.reported


----------------------------------------------------------------------------
(***************************************************************************)
(* The driver hands the same function declaration to the analyzers once    *)
(* more.  analyzeMutexUsage and analyzeWaitGroupUsage build a new analyzer *)
(* for every call; the ErrorCollector is the one thing they share.         *)
(***************************************************************************)
\* Bound on the statements of a body that is analysed twice.
MaxAgain == 3

\* q is an initial segment of r.
IsPrefix(q, r) == Len(q) <= Len(r) /\ SubSeq(r, 1, Len(q)) = q

\* The step A of a later run walks the body the earlier run walked.
SameBody(A) == A /\ (firstRun.runs = 1 => IsPrefix(body', firstRun.body))

\* analyzeMutexUsage is called again on the same fn: mutex.NewAnalyzer with
\* new bad-defer maps and no stats; the collector keeps its entries.
AnalyzeMutexUsageAgain ==
    /\ pc = "done"
    /\ firstRun = NoRun
    /\ firstRun' = [NoRun EXCEPT !.body = body, !.errors = errors, !.runs = 1]
    /\ badDeferUnlock' = {}
    /\ badDeferRUnlock' = {}
    /\ stats' = [n \in {} |-> ZeroStats]
    /\ body' = <<>>
    /\ pc' = "new"
    /\ UNCHANGED <<mutexNames, rwMutexNames, frames, errors, wgVars, reported, added,
                   comments, filtered>>

\* analyzeWaitGroupUsage is called again on the same fn: waitgroup.NewAnalyzer;
\* the collector keeps its entries.
AnalyzeWaitGroupUsageAgain ==
    /\ pc = "wgdone"
    /\ firstRun = NoRun
    /\ firstRun' = [NoRun EXCEPT !.body = body, !.errors = errors, !.runs = 1]
    /\ wgStats' = <<>>
    /\ pc' = "wg"
    /\ UNCHANGED <<mutexVars, body, waitGroupNames, function, errors, reported, added,
                   comments, filtered>>

\* analyzeFunctions: the function declares locks, or it declares a join counter.
InitAgain == Init \/ InitWG

NextAgain ==
    \/ SameBody(AnalyzeFunctionBegin)
    \/ SameBody(ExprStmtUpTo(MaxAgain))
    \/ SameBody(DeferCallStmt)
    \/ SameBody(EnterUpTo(MaxAgain, "if", "if{"))
    \/ SameBody(IfExitNoElse)
    \/ SameBody(AnalyzeFunctionEnd)
    \/ AnalyzeMutexUsageAgain
    \/ SameBody(WgCall(MaxAgain, {"func", "go"}, {"Add", "Done", "Wait"}))
    \/ SameBody(WgDeferDone(MaxAgain, {"go"}))
    \/ SameBody(WgOpen(MaxAgain, {"func"}, {"go"}))
    \/ SameBody(WgClose)
    \/ SameBody(WgAnalyzeFunction)
    \/ AnalyzeWaitGroupUsageAgain

SpecAgain == InitAgain /\ [][NextAgain]_vars

\* The analysis of the body that the earlier run walked has ended again.
AnalysedTwice ==
    /\ firstRun.runs = 1
    /\ pc \in {"done", "wgdone"}
    /\ body = firstRun.body

\* What the later run added to the collector.
SecondErrors == SubSeq(errors, Len(firstRun.errors) + 1, Len(errors))

\* C25: analysing the same function body twice yields the same diagnostics,
\* each as often, the second time as the first: nothing the first analyzer
\* held (counts, bad-defer marks, collected calls) reaches the second.
C25_SecondAnalysisSameDiagnostics ==
    AnalysedTwice =>
        /\ SubSeq(errors, 1, Len(firstRun.errors)) = firstRun.errors
        /\ SameEntries(SecondErrors, firstRun.errors)

\* defer mu.Unlock(); mu.Lock(); mu.Lock()  analysed twice: a bad deferred
\* release and outstanding acquisitions at the end of both runs.
C25_Witness ==
    /\ AnalysedTwice
    /\ pc = "done"
    /\ Ops(body) = <<"defer", "Lock", "Lock">>
    /\ Len(firstRun.errors) > 0
    /\ Len(SecondErrors) = Len(firstRun.errors)


----------------------------------------------------------------------------
(***************************************************************************)
(* Primitive discovery: findSyncPrimitives walks fn.Body and classifies    *)
(* every declared or assigned identifier by the type the type checker      *)
(* gives it.  `body` records the declarations met so far.                  *)
(***************************************************************************)
\* Bound on the declarations and assignments of a body.
MaxDecls == 3

\* Identifiers a body declares, and the types it declares them with.
DeclNames == {"mu", "wg"}
DeclTypes == {"Mutex", "RWMutex", "WaitGroup", "int"}

\* A declaration or assignment of `name` whose type is `typ`.
Decl(op, name, typ) == Stmt(op, name, <<typ>>)

\* common.IsMutex, common.IsRWMutex, common.IsWaitGroup
IsMutex(typ) == typ = "Mutex"
IsRWMutex(typ) == typ = "RWMutex"
IsWaitGroup(typ) == typ = "WaitGroup"

\* syncPrimitive
Primitives(mu, rw, wg) == [mutexes |-> mu, rwMutexes |-> rw, waitGroups |-> wg]

\* classifyAndAddPrimitive
classifyAndAddPrimitive(varName, typ, primitives) ==
    CASE IsMutex(typ)     -> [primitives EXCEPT !.mutexes = @ \cup {varName}]
      [] IsRWMutex(typ)   -> [primitives EXCEPT !.rwMutexes = @ \cup {varName}]
      [] IsWaitGroup(typ) -> [primitives EXCEPT !.waitGroups = @ \cup {varName}]
      [] OTHER            -> primitives

\* findSyncPrimitives before ast.Inspect: three empty maps.
InitFind ==
    /\ mutexNames = {}
    /\ rwMutexNames = {}
    /\ stats = [n \in {} |-> ZeroStats]
    /\ frames = <<>>
    /\ errors = <<>>
    /\ badDeferUnlock = {}
    /\ badDeferRUnlock = {}
    /\ body = <<>>
    /\ pc = "find"
    /\ waitGroupNames = {}
    /\ function = <<>>
    /\ wgStats = <<>>
    /\ reported = <<>>
    /\ firstRun = NoRun
    /\ added = <<>>
    /\ comments = <<>>
    /\ filtered = NoCall

\* The callback of ast.Inspect classifies `name` of type `typ`.
Classify(op, name, typ) ==
    LET primitives == classifyAndAddPrimitive(name, typ,
                          Primitives(mutexNames, rwMutexNames, waitGroupNames))
    IN  /\ mutexNames' = primitives.mutexes
        /\ rwMutexNames' = primitives.rwMutexes
        /\ waitGroupNames' = primitives.waitGroups
        /\ body' = Append(body, Decl(op, name, typ))
        /\ UNCHANGED <<stats, frames, errors, badDeferUnlock, badDeferRUnlock,
                       pc, function, wgStats, passVars>>

\* case *ast.ValueSpec:  var name typ , in a scope of its own.
FindValueSpec ==
    /\ pc = "find"
    /\ Len(body) < MaxDecls
    /\ \E name \in DeclNames, typ \in DeclTypes : Classify("var", name, typ)

\* case *ast.AssignStmt with token.DEFINE:  name := expression of type typ .
FindDefine ==
    /\ pc = "find"
    /\ Len(body) < MaxDecls
    /\ \E name \in DeclNames, typ \in DeclTypes : Classify(":=", name, typ)

\* case *ast.AssignStmt with token.ASSIGN:  name = expression , which has the
\* type of a declaration of name.
FindAssign ==
    /\ pc = "find"
    /\ Len(body) < MaxDecls
    /\ \E i \in 1..Len(body) :
          /\ body[i].op \in {"var", ":="}
          /\ Classify("=", body[i].x, body[i].lit[1])

\* findSyncPrimitives returns.
FindReturn ==
    /\ pc = "find"
    /\ pc' = "found"
    /\ UNCHANGED <<mutexVars, body, wgVars, errors, passVars>>

NextFind ==
    \/ FindValueSpec
    \/ FindDefine
    \/ FindAssign
    \/ FindReturn

SpecFind == InitFind /\ [][NextFind]_vars

\* C26: the three name sets that primitive discovery returns are pairwise
\* disjoint, also when one identifier is declared more than once in the
\* body with different primitive types.
C26_PrimitiveSetsDisjoint ==
    pc = "found" =>
        /\ mutexNames \cap rwMutexNames = {}
        /\ mutexNames \cap waitGroupNames = {}
        /\ rwMutexNames \cap waitGroupNames = {}


----------------------------------------------------------------------------
(***************************************************************************)
(* The comment filter (common/commentfilter).  The parser gives every      *)
(* comment the position of its first character and, as End, the position   *)
(* right after its last character.                                         *)
(***************************************************************************)
\* Bound on the comments of the file.
MaxComments == 2

\* The file the filter was built for: two lines of six characters, the last
\* character of the first line being its newline.
CfLineLen == 6
CfFiles == << [Name |-> "test.go", Base |-> 1, Size |-> 2 * CfLineLen,
               Lines |-> <<0, CfLineLen>>] >>
CfEnd == CfFiles[1].Base + CfFiles[1].Size
CfNewlines == {CfFiles[1].Base + CfLineLen - 1}

\* token.NoPos
CfNoPos == 0

\* ast.Comment
Comment(text, p, end) == [Text |-> text, Pos |-> p, End |-> end]

\* Where a line comment that starts at p ends: at the newline of its line, or
\* at the end of the file.
LineCommentEnd(p) ==
    IF \E n \in CfNewlines : p <= n
    THEN CHOOSE n \in CfNewlines : p <= n /\ \A m \in CfNewlines : p <= m => n <= m
    ELSE CfEnd

\* The comments the parser can find from position `from` on:  /*...*/  of at
\* least four characters and  //...  up to the end of the line.
CommentsFrom(from) ==
    {Comment("/*", p, end) : p \in from..CfEnd, end \in from..CfEnd} \cup
    {Comment("//", p, LineCommentEnd(p)) : p \in from..CfEnd}

ParsedComment(c) ==
    \/ c.Text = "/*" /\ c.End - c.Pos >= 4
    \/ c.Text = "//" /\ c.End - c.Pos >= 2

\* isInBlockComment
isInBlockComment(pos, start, end) ==
    IF start.Line = end.Line
    THEN pos.Line = start.Line /\ pos.Column >= start.Column /\ pos.Column <= end.Column
    ELSE IF pos.Line > start.Line /\ pos.Line < end.Line THEN TRUE
    ELSE IF pos.Line = start.Line THEN pos.Column >= start.Column
    ELSE IF pos.Line = end.Line THEN pos.Column <= end.Column
    ELSE FALSE

\* isInLineComment
isInLineComment(pos, commentStart) ==
    IF pos.Line # commentStart.Line THEN FALSE
    ELSE pos.Column >= commentStart.Column

\* positionInComment
positionInComment(pos, comment) ==
    LET commentStart == PositionIn(CfFiles, comment.Pos)
        commentEnd == PositionIn(CfFiles, comment.End)
    IN  IF pos.Filename # commentStart.Filename THEN FALSE
        ELSE IF comment.Text = "/*" THEN isInBlockComment(pos, commentStart, commentEnd)
        ELSE IF comment.Text = "//" THEN isInLineComment(pos, commentStart)
        ELSE FALSE

\* CommentFilter.IsInComment
IsInComment(cs, p) ==
    IF p = CfNoPos THEN FALSE
    ELSE \E i \in 1..Len(cs) : positionInComment(PositionIn(CfFiles, p), cs[i])

\* The positions at which the parser can find the start of a statement or of
\* a call: a character that is no newline and belongs to no comment.
StatementStarts(cs) ==
    {p \in CfFiles[1].Base..(CfEnd - 1) :
        /\ p \notin CfNewlines
        /\ \A i \in 1..Len(cs) : ~(cs[i].Pos <= p /\ p < cs[i].End)}

\* parser.ParseFile has read nothing yet.
InitFilter ==
    /\ mutexNames = {}
    /\ rwMutexNames = {}
    /\ stats = [n \in {} |-> ZeroStats]
    /\ frames = <<>>
    /\ errors = <<>>
    /\ badDeferUnlock = {}
    /\ badDeferRUnlock = {}
    /\ body = <<>>
    /\ pc = "parse"
    /\ waitGroupNames = {}
    /\ function = <<>>
    /\ wgStats = <<>>
    /\ reported = <<>>
    /\ firstRun = NoRun
    /\ added = <<>>
    /\ comments = <<>>
    /\ filtered = NoCall

\* The parser appends the next comment of the file to file.Comments.
ParseComment ==
    /\ pc = "parse"
    /\ Len(comments) < MaxComments
    /\ \E c \in CommentsFrom(IF comments = <<>> THEN CfFiles[1].Base
                             ELSE comments[Len(comments)].End) :
          /\ ParsedComment(c)
          /\ comments' = Append(comments, c)
    /\ UNCHANGED <<analyzerVars, errors, pc, reported, firstRun, added, filtered>>

\* NewCommentFilter
NewCommentFilter ==
    /\ pc = "parse"
    /\ pc' = "filter"
    /\ UNCHANGED <<analyzerVars, errors, passVars>>

\* CommentFilter.ShouldSkipStatement, on a statement an analyzer visits.
ShouldSkipStatement ==
    /\ pc = "filter"
    /\ \E p \in StatementStarts(comments) :
          filtered' = [pos |-> p, inComment |-> IsInComment(comments, p)]
    /\ UNCHANGED <<analyzerVars, errors, pc, reported, firstRun, added, comments>>

\* CommentFilter.ShouldSkipCall, on a call an analyzer visits.
ShouldSkipCall ==
    /\ pc = "filter"
    /\ \E p \in StatementStarts(comments) :
          filtered' = [pos |-> p, inComment |-> IsInComment(comments, p)]
    /\ UNCHANGED <<analyzerVars, errors, pc, reported, firstRun, added, comments>>

NextFilter ==
    \/ ParseComment
    \/ NewCommentFilter
    \/ ShouldSkipStatement
    \/ ShouldSkipCall

SpecFilter == InitFilter /\ [][NextFilter]_vars

\* C27: a statement or call that starts outside the text of every comment of
\* the file is never classified as in-comment, also when it starts right
\* after the closing */ of a block comment on the same line.
C27_CodeOutsideCommentsNotSkipped ==
    filtered # NoCall => ~filtered.inComment


----------------------------------------------------------------------------
(***************************************************************************)
(* One run of the driver over one function: the analyzer that applies      *)
(* walks the body, then the collector is flushed.  The driver is           *)
(* sequential code, so a step that can be taken is taken.                  *)
(***************************************************************************)
\* Bound on the statements of the body.
MaxTermStmts == 2

\* The compound statements of the bodies walked here.
TermKinds == {<<"if", "if{">>, <<"go", "go func{">>, <<"for", "for{">>}

NextTerm ==
    \/ AnalyzeFunctionBegin
    \/ ExprStmtUpTo(MaxTermStmts)
    \/ DeferCallStmt
    \/ \E k \in TermKinds : EnterUpTo(MaxTermStmts, k[1], k[2])
    \/ IfExitNoElse
    \/ IfExitElseEnter
    \/ ElseExit
    \/ GoExit
    \/ ForExit
    \/ AnalyzeFunctionEnd
    \/ WgCall(MaxTermStmts, {"func", "go", "for"}, {"Add", "Done", "Wait"})
    \/ WgDeferDone(MaxTermStmts, {"go"})
    \/ WgOpen(MaxTermStmts, {"func", "for"}, {"go", "for"})
    \/ WgClose
    \/ WgAnalyzeFunction
    \/ ReportAll

SpecTerm == InitAgain /\ [][NextTerm]_vars /\ WF_vars(NextTerm)

\* C28: the analysis of a function with a finite body terminates: the walk
\* of the lock-balance analyzer or of the join-counter analyzer comes to an
\* end and the collector is flushed.
C28_AnalysisTerminates == <>(pc = "reported")

\* The flush after the analysis of a body that holds a nested scope.
C28_Witness ==
    /\ pc = "reported"
    /\ NumStmts(body) = MaxTermStmts
    /\ NumOps(body, ScopeOps) > 0
    /\ Len(reported) > 0


----------------------------------------------------------------------------
\* No scope of the body walked so far has ended: every statement lies in the
\* function body or in a scope that is still open.
NoScopeClosed(b) == \A i \in DOMAIN b : b[i].op \notin {"}", "}else{"}

\* The number of calls  v.op()  among the first n statements of b.
CallsUpTo(b, n, v, op) == Cardinality({i \in 1..n : b[i].op = op /\ b[i].x = v})

\* Every Unlock of v comes while an acquisition of v, made in its own scope
\* or in an enclosing one, is outstanding.
ReleasesPaired(b, v) ==
    \A n \in 1..Len(b) : CallsUpTo(b, n, v, "Unlock") <= CallsUpTo(b, n, v, "Lock")

\* C29: a child scope (if/else arm, case arm, loop body, nested block,
\* goroutine body) starts with a copy of the enclosing scope's current
\* counts and positions, so a release inside the child pairs with an
\* acquisition outstanding in the parent and yields no "is unlocked but not
\* locked" diagnostic.
C29_ChildInheritsOutstandingLocks ==
    \A v \in VarNames :
        (pc = "run" /\ NoScopeClosed(body) /\ ReleasesPaired(body, v)) =>
            \A i \in 1..Len(errors) : errors[i].Message # UnlockedMsg(v)


----------------------------------------------------------------------------
\* The Stats of every name in every scope that is being analysed.
ScopeStats == {frames[i].st[n] : i \in 1..Len(frames), n \in mutexNames \cup rwMutexNames}

\* C30: in every state of every scope reached during the analysis (after each
\* Lock, Unlock, RLock, RUnlock, deferred release and scope merge) the lock
\* count is the number of lock positions, the rlock count is the number of
\* rlock positions, and neither count is negative.
C30_CountsMatchPositions ==
    \A s \in ScopeStats :
        /\ s.lock = Len(s.lockPos)
        /\ s.rlock = Len(s.rlockPos)
        /\ s.lock >= 0
        /\ s.rlock >= 0

\* for { mu.RLock() }; defer mu.RUnlock() : the loop body's read acquisition
\* was merged into the function's scope and the deferred release took it.
C30_Witness ==
    /\ pc = "run"
    /\ Len(frames) = 1
    /\ Ops(body) = <<"for{", "RLock", "}", "defer">>
    /\ body[4].lit = <<Call("mu", "RUnlock")>>
    /\ Top.st["mu"].rlock = 0
    /\ Top.st["mu"].rlockPos = <<>>
    /\ errors = <<>>


----------------------------------------------------------------------------
(* Straight-line bodies with return and panic statements.                  *)

\* analyzeStatement on a statement for which its switch has no case
\* (*ast.ReturnStmt), or analyzeExpressionStatement on a call whose Fun is
\* not a selector (panic(...)): nothing changes.
UnhandledStmt(op) ==
    /\ CanAddStmt
    /\ body' = Append(body, Stmt(op, "", <<>>))
    /\ UNCHANGED <<wgVars, passVars>>
    /\ UNCHANGED <<mutexNames, rwMutexNames, stats, frames, errors,
                   badDeferUnlock, badDeferRUnlock, pc>>

ReturnStmt == UnhandledStmt("return")
PanicStmt  == UnhandledStmt("panic")

NextDead ==
    \/ AnalyzeFunctionBegin
    \/ ExprStmt
    \/ DeferCallStmt
    \/ ReturnStmt
    \/ PanicStmt
    \/ AnalyzeFunctionEnd

SpecDead == Init /\ [][NextDead]_vars

\* Token j of the body follows a return or panic statement of the same block.
AfterTerminator(j) == \E k \in 1..(j - 1) : body[k].op \in {"return", "panic"}

\* The deferred Unlock at token i has only dead Lock calls on its name before it.
OnlyDeadLocksBefore(i) ==
    /\ body[i].op = "defer"
    /\ body[i].lit = <<Call(body[i].x, "Unlock")>>
    /\ \E j \in 1..(i - 1) : body[j].x = body[i].x
    /\ \A j \in 1..(i - 1) :
          body[j].x = body[i].x => body[j].op = "Lock" /\ AfterTerminator(j)

\* C31: a Lock call that follows a return or panic statement in the same
\* straight-line block is not counted as an acquisition by a later deferred
\* Unlock: the deferred Unlock is reported "has defer unlock but no
\* corresponding lock" (as in  return; Lock(); defer Unlock() ).
C31_DeadLockNotCountedForDefer ==
    \A i \in DOMAIN body :
        OnlyDeadLocksBefore(i)
            => \E e \in DOMAIN errors :
                  errors[e] = ErrorReport(i, BadDeferMsg(body[i].x))


----------------------------------------------------------------------------
\* The closure `lit` contains a call  v.sel() .
LitHas(lit, v, sel) == \E i \in DOMAIN lit : lit[i] = Call(v, sel)

\* What direct deferred calls at position p give: one  defer v.Unlock()  if
\* the closure contains an Unlock on v, then one  defer v.RUnlock()  if it
\* contains an RUnlock on v.
DirectDefers(lit, v, p, c) ==
    LET c1 == IF LitHas(lit, v, "Unlock")
              THEN handleDeferCall(v, "Unlock", p, c, mutexNames, rwMutexNames) ELSE c
    IN  IF LitHas(lit, v, "RUnlock")
        THEN handleDeferCall(v, "RUnlock", p, c1, mutexNames, rwMutexNames) ELSE c1

\* C32: a deferred closure whose body contains Unlock()/RUnlock() calls on a
\* lock variable acts exactly like one direct deferred Unlock()/RUnlock() on
\* it, however many such calls the closure has: it takes the oldest
\* outstanding acquisition, or raises the bad-defer diagnostic at the defer
\* when none is outstanding.
C32_DeferClosureLikeDirectDefer ==
    [][\A v \in VarNames : \A lit \in DeferLits(v) :
          body' = Append(body, Stmt("defer func", "", lit))
          => LET c   == DirectDefers(lit, v, NextPos, CurCtx)
                 old == Top.st[v]
                 new == frames'[Len(frames)].st[v]
             IN  /\ frames' = [frames EXCEPT ![Len(frames)].st = c.st]
                 /\ errors' = c.errors
                 /\ badDeferUnlock' = c.badU
                 /\ badDeferRUnlock' = c.badR
                 /\ LitHas(lit, v, "Unlock") =>
                       IF old.lock = 0
                       THEN /\ v \in badDeferUnlock'
                            /\ \E e \in DOMAIN errors' :
                                  errors'[e] = ErrorReport(NextPos, BadDeferMsg(v))
                       ELSE /\ new.lock = old.lock - 1
                            /\ new.lockPos = Tail(old.lockPos)
                 /\ LitHas(lit, v, "RUnlock") =>
                       IF old.rlock = 0
                       THEN v \in badDeferRUnlock'
                       ELSE /\ new.rlock = old.rlock - 1
                            /\ new.rlockPos = Tail(old.rlockPos)]_vars

\* mu.Lock(); mu.Lock(); defer func() { mu.Unlock(); mu.Unlock() }() : the
\* closure took the first acquisition only.
C32_Witness ==
    /\ pc = "run"
    /\ Ops(body) = <<"Lock", "Lock", "defer func">>
    /\ body[3].lit = <<Call("mu", "Unlock"), Call("mu", "Unlock")>>
    /\ Top.st["mu"].lock = 1
    /\ Top.st["mu"].lockPos = <<2>>
    /\ errors = <<>>


----------------------------------------------------------------------------
\* Nesting depth of token i of the walked body (0 = the function's own block).
TokenDepth(b, i) ==
    Cardinality({j \in 1..(i - 1) : b[j].op \in ScopeOps})
      - Cardinality({j \in 1..(i - 1) : b[j].op = "}"})

BadDeferRMsg(v) == "rwmutex '" \o v \o "' has defer runlock but no corresponding rlock"

\* A deferred release of v was flagged in the function's top-level scope.
FlaggedAtTopLevel(v) ==
    \E i \in DOMAIN body : \E e \in DOMAIN errors :
        /\ body[i].op \in DeferOps
        /\ TokenDepth(body, i) = 0
        /\ errors[e].Pos = i
        /\ errors[e].Message \in {BadDeferMsg(v), BadDeferRMsg(v)}

IsReported(p, message) == \E e \in DOMAIN errors : errors[e] = ErrorReport(p, message)

\* C33: a bad-defer diagnostic raised inside a goroutine or branch scope does
\* not suppress the function-level report: every acquisition left outstanding
\* in the function's top-level scope is reported at function end, unless a
\* deferred release of that variable was flagged in the top-level scope.
C33_NestedBadDeferDoesNotSuppress ==
    pc = "done" =>
        \A v \in mutexNames \cup rwMutexNames :
            ~FlaggedAtTopLevel(v) =>
                /\ \A k \in DOMAIN Top.st[v].lockPos :
                      IsReported(Top.st[v].lockPos[k], LockedMsg(v))
                /\ \A k \in DOMAIN Top.st[v].rlockPos :
                      IsReported(Top.st[v].rlockPos[k], RLockedMsg(v))


----------------------------------------------------------------------------
MaxWgCollect == 3

CollectScopes == {"func", "if", "else", "for", "range", "block", "go",
                  "case", "comm", "default"}

\* Functions with counter calls inside every kind of enclosing construct.
NextWgCollect ==
    \/ WgCall(MaxWgCollect, CollectScopes, {"Add", "Done", "Wait"})
    \/ WgOpen(MaxWgCollect, CollectScopes,
              {"if", "for", "range", "block", "go", "switch", "select"})
    \/ WgArmOpen
    \/ WgArmClose
    \/ WgElse
    \/ WgClose
    \/ WgAnalyzeFunction

SpecWgCollect == InitWG /\ [][NextWgCollect]_vars

\* Positions of the call statements  name.sel(..)  anywhere in the function.
CallSites(name, sel) ==
    {Inspect(FnBody)[i].pos : i \in {j \in DOMAIN Inspect(FnBody) :
        Inspect(FnBody)[j].kind = "call" /\ IsSelCall(Inspect(FnBody)[j], name, sel)}}

Elems(s) == {s[i] : i \in DOMAIN s}

RECURSIVE SumValues(_)
SumValues(calls) ==
    IF calls = <<>> THEN 0 ELSE Head(calls).value + SumValues(Tail(calls))

\* C34: after collection, addCalls, doneCalls and waitCalls of a counter hold
\* every (non-deferred) Add, Done and Wait call statement on it in the
\* function body, once each, whatever construct encloses the call, and
\* totalAdd is the sum of the collected Add values.
C34_EveryCallCollected ==
    pc = "wgdone" =>
        \A name \in waitGroupNames :
            LET st == wgStats[name]
            IN  /\ {st.addCalls[i].pos : i \in DOMAIN st.addCalls} = CallSites(name, "Add")
                /\ Elems(st.doneCalls) = CallSites(name, "Done")
                /\ Elems(st.waitCalls) = CallSites(name, "Wait")
                /\ Len(st.addCalls) = Cardinality(CallSites(name, "Add"))
                /\ Len(st.doneCalls) = Cardinality(CallSites(name, "Done"))
                /\ Len(st.waitCalls) = Cardinality(CallSites(name, "Wait"))
                /\ st.totalAdd = SumValues(st.addCalls)


----------------------------------------------------------------------------
MaxWgLoop == 5

\* Functions that add at the top level and start go closures whose Done
\* calls sit directly in the closure, in loops and in if statements.
NextWgLoop ==
    \/ WgCall(MaxWgLoop, {"func"}, {"Add"})
    \/ WgCall(MaxWgLoop, {"go", "for", "range", "if"}, {"Done"})
    \/ WgOpen(MaxWgLoop, {"func"}, {"go"})
    \/ WgOpen(MaxWgLoop, {"go", "if"}, {"for", "range"})
    \/ WgOpen(MaxWgLoop, {"go", "for", "range"}, {"if"})
    \/ WgClose
    \/ WgAnalyzeFunction

SpecWgLoop == InitWG /\ [][NextWgLoop]_vars

RECURSIVE DoneAnywhere(_, _)
RECURSIVE DoneOutsideLoop(_, _)
RECURSIVE DoneInLoop(_, _)

\* Some statement of the list, or of what it encloses short of another go
\* closure, is a Done call on the name.
DoneAnywhere(list, name) ==
    \E i \in DOMAIN list :
        \/ IsSelCall(list[i], name, "Done")
        \/ list[i].kind # "go" /\ DoneAnywhere(Children(list[i]), name)

\* ... a Done call on the name that no for/range loop of the list encloses.
DoneOutsideLoop(list, name) ==
    \E i \in DOMAIN list :
        \/ IsSelCall(list[i], name, "Done")
        \/ /\ list[i].kind \notin {"for", "range", "go"}
           /\ DoneOutsideLoop(Children(list[i]), name)

\* ... a Done call on the name inside a for/range loop of the list.
DoneInLoop(list, name) ==
    \E i \in DOMAIN list :
        \/ list[i].kind \in {"for", "range"} /\ DoneAnywhere(list[i].body, name)
        \/ /\ list[i].kind \notin {"for", "range", "go"}
           /\ DoneInLoop(Children(list[i]), name)

\* The closure's Done calls on the name are all inside loop bodies, and
\* there is one.
DonesOnlyInLoops(g, name) ==
    DoneInLoop(g.body, name) /\ ~DoneOutsideLoop(g.body, name)

\* C35: a Done inside a for/range loop body within a goroutine closure never
\* makes that goroutine count as guaranteeing a decrement, but it marks the
\* goroutine as containing some Done, so the goroutine-has-no-Done report is
\* not raised for it.
C35_LoopDoneIsAnyNotGuaranteed ==
    pc = "wgdone" =>
        \A name \in waitGroupNames :
            LET gos  == GoStmts(FnBody)
                only == {i \in DOMAIN gos : DonesOnlyInLoops(gos[i], name)}
            IN  /\ \A i \in only :
                      analyzeDoneCalls(gos[i].body, name) = doneCallInfo(TRUE, FALSE)
                /\ only = DOMAIN gos =>
                      /\ countGuaranteedDoneInGoroutines(FnBody, name, <<>>)
                            = [count |-> 0, errors |-> <<>>]
                      /\ \A e1, e2 \in DOMAIN errors :
                            errors[e1] = errors[e2] => e1 = e2

\* wg.Add(1); go func() { for { wg.Done() } }() : the closure guarantees no
\* Done, so the Add is unmatched, and it is reported once.
C35_Witness ==
    /\ pc = "wgdone"
    /\ Ops(body) = <<"Add", "go{", "for{", "Done", "}", "}">>
    /\ errors = <<ErrorReport(1, WgAddMsg("wg"))>>


----------------------------------------------------------------------------
MaxWgNest == 5

\* Functions with for loops, nested in each other, that add and call Done in
\* if statements, directly or in a go closure.
NextWgNest ==
    \/ WgCall(MaxWgNest, {"for"}, {"Add"})
    \/ WgCall(MaxWgNest, {"for", "if", "go"}, {"Done"})
    \/ WgOpen(MaxWgNest, {"func", "for"}, {"for"})
    \/ WgOpen(MaxWgNest, {"for"}, {"if"})
    \/ WgOpen(MaxWgNest, {"if"}, {"go"})
    \/ WgClose
    \/ WgAnalyzeFunction

SpecWgNest == InitWG /\ [][NextWgNest]_vars

\* Calls  name.sel(..)  anywhere in the body of the loop.
LoopCalls(forStmt, name, sel) ==
    SelectSeq(Inspect(forStmt.body), LAMBDA n : n.kind = "call" /\ IsSelCall(n, name, sel))

\* The loop has an Add on the name, and Done calls on it that all lie in if
\* statements of the loop body.
OnlyConditionalDones(forStmt, name) ==
    /\ LoopCalls(forStmt, name, "Add") # <<>>
    /\ LoopCalls(forStmt, name, "Done") # <<>>
    /\ \A i \in DOMAIN LoopCalls(forStmt, name, "Done") :
          isInConditional(LoopCalls(forStmt, name, "Done")[i].pos, forStmt.body)

TimesReported(p, message) ==
    Cardinality({e \in DOMAIN errors : errors[e] = ErrorReport(p, message)})

\* C36: inside a for loop in which a counter has an Add and every Done on it
\* is nested in an if statement, each such Add is reported "has Add without
\* corresponding Done" exactly once, also when for loops are nested.
C36_LoopAddReportedOnce ==
    pc = "wgdone" =>
        \A name \in waitGroupNames : \A i \in DOMAIN Inspect(FnBody) :
            LET f == Inspect(FnBody)[i]
            IN  f.kind = "for" /\ OnlyConditionalDones(f, name)
                => \A a \in DOMAIN LoopCalls(f, name, "Add") :
                      TimesReported(LoopCalls(f, name, "Add")[a].pos, WgAddMsg(name)) = 1


----------------------------------------------------------------------------
\* Bound on the AddError calls of a run with many diagnostics.
MaxBurst == 13

\* What the analyzers add in such a run: one diagnostic again and again (a
\* misuse reported more than once), and, at most once each, another message
\* for the same position and a diagnostic for an earlier position.
BurstRepeated == ErrorReport(2, "err1")
BurstSingles == {ErrorReport(2, "err2"), ErrorReport(1, "err1")}

EcAddErrorBurst ==
    /\ pc = "collect"
    /\ firstRun = NoRun
    /\ Len(errors) < MaxBurst
    /\ \E e \in {BurstRepeated} \cup BurstSingles :
          /\ e \in BurstSingles => \A i \in 1..Len(errors) : errors[i] # e
          /\ errors' = AddError(errors, e.Pos, e.Message)
          /\ added' = Append(added, e)
    /\ UNCHANGED <<analyzerVars, pc, reported, firstRun, comments, filtered>>

NextBurst ==
    \/ EcAddErrorBurst
    \/ ReportAll

SpecBurst == InitReport /\ [][NextBurst]_vars

\* The entries of q whose (filename, line, column) is that of position p.
AtTriple(q, p) == SelectSeq(q, LAMBDA e : Position(e.Pos) = Position(p))

\* C37: diagnostics added at the same (filename, line, column) are emitted
\* by ReportAll in the order in which they were added, for any number of
\* collected diagnostics.
C37_SamePositionInAddOrder ==
    pc = "reported" =>
        \A p \in FilePositions : AtTriple(reported, p) = AtTriple(added, p)


----------------------------------------------------------------------------
\* C38: no two diagnostics emitted for one function have both the same
\* position and the same message: each misuse site is reported at most once
\* per message (also when several Wait calls precede an offending Add and
\* when a goroutine that references the counter contains no Done at all).
C38_NoDuplicateDiagnostics ==
    pc = "wgdone" =>
        \A e \in DOMAIN errors : Count(errors, errors[e]) = 1


----------------------------------------------------------------------------
\* The Add calls collected for the counter that carry no "has Add without
\* corresponding Done" diagnostic.
UnreportedAdds(name) ==
    SelectSeq(wgStats[name].addCalls, LAMBDA a : ~IsReported(a.pos, WgAddMsg(name)))

\* C39: when the balance check runs for a counter whose total increment
\* exceeds its effective decrements, at least one Add call is reported "has
\* Add without corresponding Done", and the values of the Add calls left
\* unreported sum to at most the effective decrements.
C39_UnreportedAddsWithinBudget ==
    pc = "wgdone" =>
        \A name \in waitGroupNames :
            LET st    == wgStats[name]
                total == totalDone(FnBody, name, st)
            IN  st.totalAdd > total =>
                    /\ \E i \in DOMAIN st.addCalls :
                          IsReported(st.addCalls[i].pos, WgAddMsg(name))
                    /\ SumValues(UnreportedAdds(name)) <= total

\* wg.Add(1); wg.Add(1); go func() { defer wg.Done() }() : one effective
\* decrement covers the first Add, the second is reported.
C39_Witness ==
    /\ pc = "wgdone"
    /\ Ops(body) = <<"Add", "Add", "go{", "defer Done", "}">>
    /\ body[1].lit = <<1>> /\ body[2].lit = <<1>>
    /\ totalDone(FnBody, "wg", wgStats["wg"]) = 1
    /\ errors = <<ErrorReport(2, WgAddMsg("wg"))>>

====
